---- MODULE Spec2Model ----
(***************************************************************************)
(* Lead-generation pipeline: scraper -> enricher (email finder, validator, *)
(* tech stack, WHOIS, heuristics) -> lead score -> MySQL store, run by one *)
(* background thread per scrape request.                                   *)
(*                                                                         *)
(* Python values.  A dict is a function whose DOMAIN is the set of keys    *)
(* present.  A field that may hold None next to a str or a number holds a  *)
(* tagged value (None, Str(s), Num(n)).  Texts that the code searches for  *)
(* keywords are sequences of words, phone numbers are sequences of         *)
(* characters, an e-mail address is the list of its parts around '@'.      *)
(* Fractions are scaled integers: years in tenths, contact quality in      *)
(* hundredths.                                                             *)
(***************************************************************************)
EXTENDS Integers, Sequences, FiniteSets, TLC

VARIABLES
    finder,     \* which EmailFinder answers get_best_email: "source" | "spec"
    hpc,        \* position of the single-lead run: "start" | "enriched" | "scored" | "caught"
    hraw,       \* the raw lead handed to enrich_lead
    henv,       \* what the outside world answers during that run
    hres,       \* what enrich_lead did: [raised, exc, value]
    hlead,      \* the lead as background_scrape hands it to insert_lead
    spc,        \* position of the scoring run: "start" | "scored"
    slead,      \* the lead handed to calculate_lead_score
    sscore,     \* its score
    sprev,      \* the score before the last signal was turned on
    signal,     \* the signal turned on last
    world,      \* what each site answers: url -> [fetch, lead, env]
    db_up,      \* whether MySQL accepts connections
    outages,    \* how often it has stopped accepting them
    leads,      \* table leads: rows [id, url, status, updated, cols]
    next_id,    \* AUTO_INCREMENT of table leads
    activity_log, \* table activity_log, in id order: rows [lead_id, activity_type]
    jobs,       \* table scraping_jobs: id -> [query, source_type, status, leads_found, error_message]
    threads,    \* the background_scrape thread of each job
    fn,         \* the method a function-level run has called last, or "start"
    args,       \* the arguments of that run
    ret,        \* what the method returned
    pool,       \* the connections of the Database object: [kind, free]
    conns       \* the get_connection blocks in progress, per caller

hvars == <<hpc, hraw, henv, hres, hlead>>
svars == <<spc, slead, sscore, sprev, signal>>
pvars == <<world, db_up, outages, leads, next_id, activity_log, jobs, threads>>
uvars == <<fn, args, ret>>
cvars == <<pool, conns>>
vars == <<finder, hvars, svars, pvars, uvars, cvars>>

----------------------------------------------------------------------------
(* Python values and dicts *)

None == [none |-> TRUE]
Str(s) == [s |-> s]
Num(n) == [n |-> n]
IsStr(v) == DOMAIN v = {"s"}
IsNum(v) == DOMAIN v = {"n"}

EmptyDict == [k \in {} |-> None]
Has(d, k) == k \in DOMAIN d
Get(d, k, default) == IF k \in DOMAIN d THEN d[k] ELSE default
Put(d, k, v) == [y \in DOMAIN d \cup {k} |-> IF y = k THEN v ELSE d[y]]
Update(d, e) == [y \in DOMAIN d \cup DOMAIN e |-> IF y \in DOMAIN e THEN e[y] ELSE d[y]]

\* a dict of the given fields: <<v>> is the value v, <<>> is no key
DictOf(fields) ==
    [k \in {f \in DOMAIN fields : fields[f] # <<>>} |-> fields[k][1]]

\* truth value of a tagged value: None and '' are falsy
Truthy(v) == v # None /\ (IsStr(v) => v.s # "") /\ (IsNum(v) => v.n # 0)

Min(a, b) == IF a <= b THEN a ELSE b

Ok(v) == [raised |-> FALSE, exc |-> "", value |-> v]
Raise(e) == [raised |-> TRUE, exc |-> e, value |-> None]

\* no function-level run
UIdle ==
    /\ fn = "idle"
    /\ args = EmptyDict
    /\ ret = None

----------------------------------------------------------------------------
(* validator.py: EmailValidator *)

Email(local, domain) == [parts |-> <<local, domain>>]
NoAt(text) == [parts |-> <<text>>]
EmptyEmail == [parts |-> <<"">>]

disposable_domains ==
    {"tempmail.com", "guerrillamail.com", "10minutemail.com",
     "throwaway.email", "mailinator.com"}

common_typos == {"gmial.com", "gmai.com", "yahooo.com", "outlok.com"}

business_domains == {"gmail.com", "outlook.com", "yahoo.com", "hotmail.com"}

\* the strings of the model that match [a-zA-Z0-9._%+-]+
LocalPattern == {"john.doe", "info", "j_doe", "sales1", "Jane.Roe"}
\* the strings of the model that match [a-zA-Z0-9.-]+\.[a-zA-Z]{2,}
DomainPattern ==
    {"hubspot.com", "zendesk.com", "salesforce.com", "example-corp.test",
     "gmail.com", "gmial.com", "tempmail.com", "TempMail.com", "mailinator.com"}

LowerStr(s) ==
    CASE s = "Jane.Roe" -> "jane.roe"
      [] s = "TempMail.com" -> "tempmail.com"
      [] s = "Example" -> "example"
      [] s = "Corp" -> "corp"
      [] s = "Example-Corp" -> "example-corp"
      [] s = "Salesforce" -> "salesforce"
      [] s = "Hubspot" -> "hubspot"
      [] s = "HubSpot" -> "hubspot"
      [] s = "Zendesk" -> "zendesk"
      [] s = "Unknown" -> "unknown"
      [] s = "React" -> "react"
      [] s = "Vue" -> "vue"
      [] s = "Angular" -> "angular"
      [] s = "WordPress" -> "wordpress"
      [] s = "Shopify" -> "shopify"
      [] s = "Google Analytics" -> "google analytics"
      [] s = "Stripe" -> "stripe"
      [] s = "Intercom" -> "intercom"
      [] s = "No" -> "no"
      [] s = "Bank" -> "bank"
      [] OTHER -> s

\* the lower-cased local parts that match ^[a-z]+\.[a-z]+$, ^[a-z]+[a-z]$
\* or ^[a-z]+_[a-z]+$
ProfessionalPattern == {"john.doe", "jane.roe", "info", "j_doe"}

\* a test for None that lets the empty string through
NullOnly(email) == email = None

\* a disposable check that finds nothing
NeverDisposable(email) == FALSE

\* `not email`
EmailFalsy(email) == email = None \/ email = EmptyEmail

HasAt(email) == Len(email.parts) >= 2

check_format(email) ==
    /\ Len(email.parts) = 2
    /\ email.parts[1] \in LocalPattern
    /\ email.parts[2] \in DomainPattern

is_disposable(email) ==
    LET domain == IF HasAt(email) THEN email.parts[2] ELSE ""
    IN  domain \in disposable_domains

MxOutcomes == {"records", "NXDOMAIN", "NoAnswer", "Timeout", "error"}

\* mx is what dns.resolver.resolve does for the domain
check_mx_record(email, mx) ==
    IF ~HasAt(email) THEN TRUE                 \* IndexError -> except Exception
    ELSE IF email.parts[2] \in common_typos THEN FALSE
    ELSE IF mx = "records" THEN TRUE
    ELSE IF mx \in {"NXDOMAIN", "NoAnswer", "Timeout"} THEN FALSE
    ELSE TRUE

validate_email(email, mx) ==
    IF EmailFalsy(email) THEN FALSE
    ELSE IF ~check_format(email) THEN FALSE
    ELSE IF is_disposable(email) THEN FALSE
    ELSE IF ~check_mx_record(email, mx) THEN FALSE
    ELSE TRUE

is_professional_format(email) ==
    LET local_part == IF HasAt(email) THEN email.parts[1] ELSE ""
    IN  LowerStr(local_part) \in ProfessionalPattern

get_confidence_score(email, mx) ==
    IF EmailFalsy(email) THEN 0
    ELSE LET domain == IF HasAt(email) THEN email.parts[2] ELSE ""
             score == (IF check_format(email) THEN 30 ELSE 0)
                    + (IF ~is_disposable(email) THEN 20 ELSE 0)
                    + (IF check_mx_record(email, mx) THEN 30 ELSE 0)
                    + (IF domain \notin business_domains THEN 10 ELSE 0)
                    + (IF is_professional_format(email) THEN 10 ELSE 0)
         IN  Min(100, score)

providers ==
    [d \in {"gmail.com", "outlook.com", "hotmail.com", "yahoo.com",
            "icloud.com", "protonmail.com"} |->
        CASE d = "gmail.com" -> "Gmail"
          [] d = "outlook.com" -> "Outlook"
          [] d = "hotmail.com" -> "Hotmail"
          [] d = "yahoo.com" -> "Yahoo"
          [] d = "icloud.com" -> "iCloud"
          [] d = "protonmail.com" -> "ProtonMail"]

get_email_provider(email) ==
    IF EmailFalsy(email) \/ ~HasAt(email) THEN "Unknown"
    ELSE LET domain == LowerStr(email.parts[2])
         IN  IF domain \in DOMAIN providers THEN providers[domain]
             ELSE "Business Email"

----------------------------------------------------------------------------
(* validate_email and get_confidence_score on every email of the model and *)
(* every outcome of the MX lookup.                                         *)

ValidatorEmails ==
    {None, EmptyEmail, NoAt("invalid"), [parts |-> <<"a", "b", "hubspot.com">>]}
    \cup {Email(local, domain) :
            local \in LocalPattern \cup {"john doe"},
            domain \in DomainPattern \cup {"localhost"}}

VInit ==
    /\ fn = "start"
    /\ args \in [email : ValidatorEmails, mx : MxOutcomes]
    /\ ret = None

\* validator.validate_email(email)
VValidate ==
    /\ fn = "start"
    /\ ret' = [valid |-> validate_email(args.email, args.mx)]
    /\ fn' = "validate_email"
    /\ UNCHANGED <<finder, cvars, hvars, svars, pvars, args>>

\* validator.get_confidence_score(email)
VConfidence ==
    /\ fn = "start"
    /\ ret' = Num(get_confidence_score(args.email, args.mx))
    /\ fn' = "get_confidence_score"
    /\ UNCHANGED <<finder, cvars, hvars, svars, pvars, args>>

----------------------------------------------------------------------------
(* email_finder.py: EmailFinder *)

\* the methods class EmailFinder defines
EmailFinderMethods ==
    {"__init__", "_load_api_key", "get_domain_from_url", "domain_search",
     "email_verifier", "email_finder", "get_account_info", "find_emails_for_lead"}

\* urlparse(url).netloc or .path, with 'www.' removed
get_domain_from_url(url) ==
    CASE url = "https://www.salesforce.com" -> "salesforce.com"
      [] url = "https://www.hubspot.com" -> "hubspot.com"
      [] url = "https://www.zendesk.com" -> "zendesk.com"
      [] url = "https://example-corp.test" -> "example-corp.test"
      [] OTHER -> url

\* api: [key, resp, emails]: whether an API key is configured, what
\* requests.get does ("timeout", "error" or the status code), and the
\* data.emails list of a 200 response
domain_search(domain, api) ==
    IF ~api.key THEN [success |-> FALSE, error |-> "No API key configured"]
    ELSE IF api.resp = "timeout" THEN [success |-> FALSE, error |-> "Request timeout"]
    ELSE IF api.resp = "error" THEN [success |-> FALSE, error |-> "connection error"]
    ELSE IF api.resp = "200" THEN
        [success |-> TRUE,
         emails |-> [i \in 1..Len(api.emails) |->
                        [email |-> api.emails[i].value,
                         first_name |-> api.emails[i].first_name,
                         last_name |-> api.emails[i].last_name,
                         position |-> api.emails[i].position,
                         department |-> api.emails[i].department,
                         confidence |-> api.emails[i].confidence,
                         source |-> "hunter.io"]],
         domain |-> domain,
         total |-> Len(api.emails)]
    ELSE IF api.resp = "401" THEN [success |-> FALSE, error |-> "Invalid API key"]
    ELSE IF api.resp = "429" THEN [success |-> FALSE, error |-> "API rate limit exceeded"]
    ELSE [success |-> FALSE, error |-> "API error"]

find_emails_for_lead(lead_data, api) ==
    LET domain == IF Truthy(Get(lead_data, "domain", None)) THEN lead_data["domain"].s
                  ELSE IF Get(lead_data, "url", "") # ""
                       THEN get_domain_from_url(lead_data["url"])
                       ELSE ""
    IN  IF domain = "" THEN <<>>
        ELSE LET result == domain_search(domain, api)
             IN  IF result.success THEN result.emails ELSE <<>>

\* the contact the finder is specified to return for a url: the first
\* highest-confidence entry of the domain search, or None
bestEmailFor(url, api) ==
    LET found == find_emails_for_lead([url |-> url], api)
    IN  IF found = <<>> THEN None
        ELSE LET best == CHOOSE i \in 1..Len(found) :
                            /\ \A j \in 1..Len(found) :
                                    found[j].confidence <= found[i].confidence
                            /\ \A j \in 1..(i - 1) :
                                    found[j].confidence < found[i].confidence
             IN  found[best]

\* self.email_finder.get_best_email(url) as enrich_lead calls it: the
\* attribute lookup on the EmailFinder instance comes first
get_best_email(url, api) ==
    IF finder = "source" /\ "get_best_email" \notin EmailFinderMethods
    THEN Raise("AttributeError")
    ELSE Ok(bestEmailFor(url, api))

----------------------------------------------------------------------------
(* enricher.py: DataEnricher *)

Phone(chars) == [chars |-> chars]

UpperChar(c) ==
    CASE c = "n" -> "N" [] c = "a" -> "A" [] c = "o" -> "O"
      [] c = "e" -> "E" [] c = "u" -> "U" [] c = "l" -> "L"
      [] OTHER -> c

Digits == {"0", "1", "2", "3", "4", "5", "6", "7", "8", "9"}

IsFormatting(c) == c \in {" ", "\t", "\n", "-", "(", ")", "+"}
NotFormatting(c) == ~IsFormatting(c)

is_valid_phone(phone) ==
    IF phone = None \/ phone.chars = <<>> THEN FALSE
    ELSE LET upper == [i \in 1..Len(phone.chars) |-> UpperChar(phone.chars[i])]
         IN  IF upper \in {<<"N", "/", "A">>, <<"N", "O", "N", "E">>,
                           <<"N", "U", "L", "L">>}
             THEN FALSE
             ELSE LET cleaned == SelectSeq(phone.chars, NotFormatting)
                  IN  /\ Len(cleaned) >= 10
                      /\ \A i \in 1..Len(cleaned) : cleaned[i] \in Digits

tech_stack_patterns ==
    << <<"React", {"react.js", "reactjs", "_next"}>>,
       <<"Vue", {"vue.js", "vuejs"}>>,
       <<"Angular", {"angular", "ng-"}>>,
       <<"WordPress", {"wp-content", "wordpress"}>>,
       <<"Shopify", {"shopify", "cdn.shopify"}>>,
       <<"Salesforce", {"salesforce"}>>,
       <<"HubSpot", {"hubspot", "hs-analytics"}>>,
       <<"Google Analytics", {"google-analytics", "gtag"}>>,
       <<"Stripe", {"js.stripe.com"}>>,
       <<"Intercom", {"intercom"}>>,
       <<"Zendesk", {"zendesk"}>> >>

IsDetected(entry, found) == entry[2] \cap found # {}

\* page: [ok, found]: whether requests.get(url, timeout=5) answered, and
\* the signatures that occur in the lower-cased html or headers
detect_tech_stack(page) ==
    IF ~page.ok THEN <<"Unknown">>
    ELSE LET hits == SelectSeq(tech_stack_patterns,
                               LAMBDA entry : IsDetected(entry, page.found))
             detected == [i \in 1..Len(hits) |-> hits[i][1]]
         IN  IF detected # <<>> THEN detected ELSE <<"Unknown">>

\* round(age_days / 365, 1), in tenths of a year
AgeTenths(age_days) == (20 * age_days + 365) \div 730

\* whois: [ok, creation, registrar]: whether whois.whois(domain) and the
\* date arithmetic went through, the age in days of the (first) creation
\* date or None, and the registrar or None
get_domain_info(whois) ==
    IF ~whois.ok THEN [domain_age_years |-> Str("Unknown")]
    ELSE LET i1 == IF whois.creation # None
                   THEN Put(EmptyDict, "domain_age_years",
                            Num(AgeTenths(whois.creation.n)))
                   ELSE EmptyDict
         IN  IF Truthy(whois.registrar) THEN Put(i1, "registrar", whois.registrar)
             ELSE i1

estimate_employees(lead) ==
    LET tech_count == Len(Get(lead, "tech_stack", <<>>))
        tech == IF tech_count > 5 THEN 100 ELSE IF tech_count > 3 THEN 50 ELSE 10
        domain_age == Get(lead, "domain_age_years", Num(0))
        age == IF IsNum(domain_age)
               THEN IF domain_age.n > 100 THEN 100
                    ELSE IF domain_age.n > 50 THEN 50 ELSE 20
               ELSE 0
        social_count == Cardinality(DOMAIN Get(lead, "social_links", EmptyDict))
        score == tech + age + social_count * 10
    IN  IF score > 150 THEN "100-500"
        ELSE IF score > 100 THEN "50-100"
        ELSE IF score > 50 THEN "10-50"
        ELSE "1-10"

estimate_revenue(lead) ==
    LET employee_range == Get(lead, "employee_estimate", "1-10")
    IN  CASE employee_range = "1-10" -> "$0-2M"
          [] employee_range = "10-50" -> "$2M-10M"
          [] employee_range = "50-100" -> "$10M-20M"
          [] employee_range = "100-500" -> "$20M-100M"
          [] OTHER -> "Unknown"

industries ==
    << <<"SaaS", {"software", "saas", "cloud", "platform", "api"}>>,
       <<"E-commerce", {"shop", "store", "ecommerce", "retail", "shopify"}>>,
       <<"Finance", {"finance", "bank", "payment", "stripe", "fintech"}>>,
       <<"Marketing", {"marketing", "advertising", "hubspot", "seo"}>>,
       <<"Healthcare", {"health", "medical", "care", "hospital", "clinic"}>>,
       <<"Education", {"education", "learning", "school", "university", "course"}>>,
       <<"Real Estate", {"real estate", "property", "housing", "realty"}>>,
       <<"Technology", {"tech", "software", "it", "development", "react", "angular"}>> >>

\* the industry keywords that occur inside one lower-cased word
KeywordsIn(word) ==
    CASE word = "software" -> {"software"}
      [] word = "cloud" -> {"cloud"}
      [] word = "platform" -> {"platform"}
      [] word = "bank" -> {"bank"}
      [] word = "payment" -> {"payment"}
      [] word = "marketing" -> {"marketing"}
      [] word = "shopify" -> {"shop", "shopify"}
      [] word = "hubspot" -> {"hubspot"}
      [] word = "stripe" -> {"stripe"}
      [] word = "react" -> {"react"}
      [] word = "angular" -> {"angular"}
      [] word = "with" -> {"it"}
      [] word = "capital" -> {"api", "it"}
      [] word = "career" -> {"care"}
      [] word = "fintech" -> {"fintech", "tech"}
      [] word = "property" -> {"property"}
      [] OTHER -> {}

\* keyword in combined_text
TextHas(words, keyword) ==
    \/ \E i \in 1..Len(words) : keyword \in KeywordsIn(words[i])
    \/ /\ keyword = "real estate"
       /\ \E i \in 1..(Len(words) - 1) : words[i] = "real" /\ words[i + 1] = "estate"

LowerAll(words) == [i \in 1..Len(words) |-> LowerStr(words[i])]

\* a loop that keeps the last industry that matched
LastMatch(matches) == CHOOSE i \in matches : \A j \in matches : i >= j

\* the loop returns at the first industry that matched
FirstMatch(matches) == CHOOSE i \in matches : \A j \in matches : i <= j

classify_industry(lead) ==
    LET description == LowerAll(Get(lead, "description", <<>>))
        name == LowerAll(Get(lead, "company_name", <<>>))
        tech_stack == LowerAll(Get(lead, "tech_stack", <<>>))
        combined_text == description \o name \o tech_stack
        matches == {i \in 1..Len(industries) :
                        \E keyword \in industries[i][2] : TextHas(combined_text, keyword)}
    IN  IF matches = {} THEN "General Business"
        ELSE industries[FirstMatch(matches)][1]

\* the fields estimate_employees reads: tech stacks of 0 to 6 names, ages
\* around the limits of 5 and 10 years, a missing and an unknown age, and 0
\* to 4 social links
TechStacks ==
    {<<>>, <<"Unknown">>, <<"React", "Vue", "Angular">>,
     <<"React", "Vue", "Angular", "WordPress">>,
     <<"React", "Vue", "Angular", "WordPress", "Shopify">>,
     <<"React", "Vue", "Angular", "WordPress", "Shopify", "Stripe">>}

DomainAges ==
    {<<>>, <<Num(0)>>, <<Num(50)>>, <<Num(51)>>, <<Num(100)>>, <<Num(101)>>,
     <<Num(120)>>, <<Str("Unknown")>>}

SocialLinks ==
    {[p \in platforms |-> "https://" \o p \o ".com/x"] :
        platforms \in {{}, {"linkedin"}, {"linkedin", "twitter"},
                       {"linkedin", "twitter", "facebook", "instagram"}}}

EstimateLeads ==
    {DictOf([tech_stack |-> <<t>>, domain_age_years |-> a, social_links |-> <<sl>>]) :
        t \in TechStacks, a \in DomainAges, sl \in SocialLinks}

EInit ==
    /\ fn = "start"
    /\ args \in EstimateLeads
    /\ ret = None

\* lead['employee_estimate'] = self.estimate_employees(lead)
EEmployees ==
    /\ fn = "start"
    /\ ret' = [employee_estimate |-> estimate_employees(args)]
    /\ fn' = "estimate_employees"
    /\ UNCHANGED <<finder, cvars, hvars, svars, pvars, args>>

\* lead['revenue_estimate'] = self.estimate_revenue(lead)
ERevenue ==
    /\ fn = "estimate_employees"
    /\ ret' = [employee_estimate |-> ret.employee_estimate,
               revenue_estimate |->
                    estimate_revenue(Put(args, "employee_estimate", ret.employee_estimate))]
    /\ fn' = "estimate_revenue"
    /\ UNCHANGED <<finder, cvars, hvars, svars, pvars, args>>

\* the description the scraper gives a page without one
NoDescription == <<"No", "description", "available">>

\* the fields classify_industry reads, for descriptions, names and tech
\* stacks with keywords of no, one and several industries
ClassifyLeads ==
    {DictOf([description |-> d, company_name |-> n, tech_stack |-> t]) :
        d \in {<<>>, <<NoDescription>>, << <<"software", "bank">> >>,
               << <<"bank", "software">> >>, << <<"online", "payment", "processing">> >>,
               << <<"real", "estate">> >>, << <<"career", "coaching">> >>,
               << <<"venture", "capital">> >>, << <<"works", "with", "teams">> >>,
               << <<"fintech", "property">> >>},
        n \in {<<>>, << <<"Zendesk">> >>, << <<"HubSpot">> >>, << <<"Bank">> >>,
               << <<"Shopify">> >>},
        t \in {<<>>, << <<"Unknown">> >>, << <<"React", "HubSpot">> >>,
               << <<"Stripe">> >>, << <<"Angular">> >>}}

CInit ==
    /\ fn = "start"
    /\ args \in ClassifyLeads
    /\ ret = None

\* enricher.classify_industry(lead)
CClassify ==
    /\ fn = "start"
    /\ ret' = Str(classify_industry(args))
    /\ fn' = "classify_industry"
    /\ UNCHANGED <<finder, cvars, hvars, svars, pvars, args>>

\* the same call again, on the same lead
CAgain ==
    /\ fn = "classify_industry"
    /\ ret' = [first |-> ret.s, second |-> classify_industry(args)]
    /\ fn' = "classify_industry again"
    /\ UNCHANGED <<finder, cvars, hvars, svars, pvars, args>>

\* str.strip() of the contact names of the model
Strip(s) == IF s \in {" ", "  "} THEN "" ELSE s

\* a result that is not rounded
NotRounded(h) == h

\* round(score, 1) of a sum of quarters, in hundredths: ties go to the even tenth
Round1(h) ==
    LET q == h \div 10
        r == h % 10
    IN  IF r < 5 THEN 10 * q
        ELSE IF r > 5 THEN 10 * (q + 1)
        ELSE IF q % 2 = 0 THEN 10 * q ELSE 10 * (q + 1)

rate_contact_quality(lead) ==
    LET confidence == Get(lead, "email_confidence", 0)
        email == IF Get(lead, "email_valid", FALSE)
                 THEN IF confidence >= 90 THEN 250
                      ELSE IF confidence >= 70 THEN 200 ELSE 150
                 ELSE 0
        name == IF Strip(Get(lead, "contact_name", "")) # "" THEN 75 ELSE 0
        position == IF Truthy(Get(lead, "contact_position", None))
                       \/ Truthy(Get(lead, "contact_department", None))
                    THEN 75 ELSE 0
        phone == IF Get(lead, "phone_valid", FALSE) THEN 100 ELSE 0
        social == IF DOMAIN Get(lead, "social_links", EmptyDict) # {} THEN 50 ELSE 0
        description == Get(lead, "description", <<>>)
        described == IF description \notin {<<>>, NoDescription, <<"N/A">>} THEN 50 ELSE 0
    IN  Min(500, Round1(email + name + position + phone + social + described))

Linkedin == [linkedin |-> "https://linkedin.com/company/x"]
TwoLinks == [linkedin |-> "https://linkedin.com/company/x",
             twitter |-> "https://twitter.com/x"]

\* the fields rate_contact_quality reads, each present or absent
QualityLeads ==
    {DictOf([email_valid |-> ev, email_confidence |-> ec, contact_name |-> cn,
             contact_position |-> <<cp>>, contact_department |-> <<cd>>,
             phone_valid |-> <<pv>>, social_links |-> <<sl>>, description |-> d]) :
        ev \in {<<>>, <<FALSE>>, <<TRUE>>},
        ec \in {<<>>, <<0>>, <<69>>, <<70>>, <<89>>, <<90>>},
        cn \in {<<>>, <<" ">>, <<"John Doe">>},
        cp \in {None, Str("CEO")},
        cd \in {None, Str("sales")},
        pv \in BOOLEAN,
        sl \in {EmptyDict, Linkedin},
        d \in {<<>>, <<NoDescription>>, << <<"N/A">> >>,
               << <<"inbound", "marketing", "software">> >>}}

QInit ==
    /\ fn = "start"
    /\ args \in QualityLeads
    /\ ret = None

\* enricher.rate_contact_quality(lead)
QRate ==
    /\ fn = "start"
    /\ ret' = Num(rate_contact_quality(args))
    /\ fn' = "rate_contact_quality"
    /\ UNCHANGED <<finder, cvars, hvars, svars, pvars, args>>

\* the 'None' that an f-string prints for None
FormatStr(v) == IF v = None THEN "None" ELSE v.s

\* f"{first} {last}".strip()
FullName(first, last) ==
    LET a == FormatStr(first)
        b == FormatStr(last)
    IN  IF a = "" THEN b ELSE IF b = "" THEN a ELSE a \o " " \o b

\* STEP 1: adopt the finder's contact, or record that none was found
EnrichStep1(lead, email_data, mx) ==
    IF email_data # None /\ ~EmailFalsy(email_data.email)
    THEN Update(lead,
            [email |-> email_data.email,
             email_confidence |-> email_data.confidence,
             contact_name |-> FullName(email_data.first_name, email_data.last_name),
             contact_position |-> email_data.position,
             contact_department |-> email_data.department,
             email_valid |-> validate_email(email_data.email, mx[1]),
             email_score |-> get_confidence_score(email_data.email, mx[2]),
             email_provider |-> get_email_provider(email_data.email)])
    ELSE Update(lead,
            [email |-> None, email_valid |-> FALSE, email_confidence |-> 0,
             email_status |-> "Not found"])

\* STEPS 2..7
EnrichRest(l1, env) ==
    LET l2 == Put(l1, "tech_stack", detect_tech_stack(env.page))
        l3 == Update(l2, get_domain_info(env.whois))
        l4 == Put(l3, "employee_estimate", estimate_employees(l3))
        l5 == Put(l4, "revenue_estimate", estimate_revenue(l4))
        l6 == Put(l5, "industry", classify_industry(l5))
        l7 == IF ~is_valid_phone(Get(l6, "phone", None))
              THEN Update(l6, [phone_valid |-> FALSE, phone |-> None])
              ELSE Put(l6, "phone_valid", TRUE)
    IN  Put(l7, "contact_quality", rate_contact_quality(l7))

\* env: [api, page, whois, mx]; the result is [raised, exc, value]
enrich_lead(lead, env) ==
    LET url == Get(lead, "url", "")
    IN  IF url = "" THEN Ok(lead)
        ELSE LET email_data == get_best_email(url, env.api)
             IN  IF email_data.raised THEN Raise(email_data.exc)
                 ELSE Ok(EnrichRest(EnrichStep1(lead, email_data.value, env.mx), env))

----------------------------------------------------------------------------
(* app.py: the lead score and the per-lead steps of background_scrape *)

\* the +10 / +5 bonus by email-confidence tier
ConfidenceSwapped(confidence) ==
    IF confidence >= 90 THEN 5 ELSE IF confidence >= 70 THEN 10 ELSE 0

ConfidenceBonus(confidence) ==
    IF confidence >= 90 THEN 10 ELSE IF confidence >= 70 THEN 5 ELSE 0

\* min(score, 100)
CapMissing(score) == score

Cap(score) == Min(score, 100)

calculate_lead_score(lead) ==
    LET confidence == Get(lead, "email_confidence", 0)
        revenue == Get(lead, "revenue_estimate", "")
        score == 50
            + (IF Get(lead, "email_valid", FALSE) THEN 20 ELSE 0)
            + ConfidenceBonus(confidence)
            + (IF Get(lead, "phone_valid", FALSE) THEN 10 ELSE 0)
            + (IF revenue # "" /\ revenue # "Unknown" THEN 10 ELSE 0)
            + (IF Get(lead, "tech_stack", <<>>) # <<>> THEN 5 ELSE 0)
            + (IF Get(lead, "employee_estimate", "") # "" THEN 5 ELSE 0)
            + (IF Strip(Get(lead, "contact_name", "")) # "" THEN 5 ELSE 0)
            + (IF DOMAIN Get(lead, "social_links", EmptyDict) # {} THEN 5 ELSE 0)
    IN  Cap(score)

\* background_scrape, lines 79-86: validate the email if present, then score
Revalidate(enriched, mx) ==
    IF ~EmailFalsy(Get(enriched, "email", None))
    THEN Update(enriched,
            [email_valid |-> validate_email(enriched["email"], mx[3]),
             email_confidence |-> get_confidence_score(enriched["email"], mx[4]),
             email_provider |-> get_email_provider(enriched["email"])])
    ELSE enriched

\* a scoring step that leaves lead_score out
ScoreSkipped(enriched, mx) == Revalidate(enriched, mx)

ScoreLead(enriched, mx) ==
    LET l == Revalidate(enriched, mx)
    IN  Put(l, "lead_score", calculate_lead_score(l))

----------------------------------------------------------------------------
(* One lead through enrich_lead and the scoring steps of background_scrape, *)
(* for every raw lead and every answer of the outside world of the model.  *)

ValidPhone == Phone(<<"(", "5", "5", "5", ")", " ", "1", "2", "3", "-", "4", "5", "6", "7">>)
ShortPhone == Phone(<<"5", "5", "5", "-", "1", "2", "3", "4">>)
DottedPhone == Phone(<<"5", "5", "5", ".", "1", "2", "3", ".", "4", "5", "6", "7">>)
PlainPhone == Phone(<<"+", "1", "5", "5", "5", "1", "2", "3", "4", "5", "6">>)
NoPhone == Phone(<<"N", "/", "A">>)

\* what scrape_single_url returns when the fetch and the parse succeed
ScrapedLeads ==
    {[url |-> "https://www.hubspot.com", company_name |-> <<"HubSpot">>,
      email |-> e, phone |-> p, description |-> d, social_links |-> sl] :
        e \in {Email("info", "hubspot.com")},
        p \in {None, ValidPhone, ShortPhone, DottedPhone, PlainPhone, NoPhone},
        d \in {<<"inbound", "marketing", "software">>, NoDescription},
        sl \in {EmptyDict, TwoLinks}}

\* what scrape_single_url returns when they fail
DegradedLead ==
    [url |-> "https://www.zendesk.com", error |-> "ConnectionError",
     company_name |-> <<"Zendesk">>]

ExampleCorp ==
    [url |-> "https://example-corp.test", company_name |-> <<"Example", "Corp">>,
     description |-> <<"cloud", "software", "platform">>]

NoUrlLead == [company_name |-> <<"Example", "Corp">>, url |-> ""]

RawLeads == ScrapedLeads \cup {DegradedLead, ExampleCorp, NoUrlLead}

HunterHigh ==
    [value |-> Email("john.doe", "hubspot.com"), first_name |-> Str("John"),
     last_name |-> Str("Doe"), position |-> Str("CEO"), department |-> None,
     confidence |-> 95]
HunterLow ==
    [value |-> Email("sales1", "gmail.com"), first_name |-> None,
     last_name |-> None, position |-> None, department |-> None,
     confidence |-> 40]
HunterDisposable ==
    [value |-> Email("info", "mailinator.com"), first_name |-> Str("Ann"),
     last_name |-> Str(""), position |-> None, department |-> Str("sales"),
     confidence |-> 99]

ApiAnswers ==
    {[key |-> FALSE, resp |-> "200", emails |-> <<HunterHigh>>],
     [key |-> TRUE, resp |-> "timeout", emails |-> <<>>],
     [key |-> TRUE, resp |-> "401", emails |-> <<>>],
     [key |-> TRUE, resp |-> "200", emails |-> <<>>],
     [key |-> TRUE, resp |-> "200", emails |-> <<HunterHigh>>],
     [key |-> TRUE, resp |-> "200", emails |-> <<HunterLow>>],
     [key |-> TRUE, resp |-> "200", emails |-> <<HunterLow, HunterDisposable>>]}

PageAnswers ==
    {[ok |-> FALSE, found |-> {}],
     [ok |-> TRUE, found |-> {"hubspot", "hs-analytics", "gtag"}],
     [ok |-> TRUE, found |-> {"_next", "ng-", "wordpress", "hubspot", "gtag", "zendesk"}]}

WhoisAnswers ==
    {[ok |-> FALSE, creation |-> None, registrar |-> None],
     [ok |-> TRUE, creation |-> None, registrar |-> None],
     [ok |-> TRUE, creation |-> Num(2300), registrar |-> None],
     [ok |-> TRUE, creation |-> Num(4380), registrar |-> Str("MarkMonitor Inc.")]}

\* the four MX lookups of one lead: validate_email and get_confidence_score
\* in enrich_lead, then again in background_scrape
MxAnswers == [1..4 -> {"records", "NXDOMAIN"}]

Envs == [api : ApiAnswers, page : PageAnswers, whois : WhoisAnswers, mx : MxAnswers]

NoResult == [raised |-> FALSE, exc |-> "", value |-> EmptyDict]

HIdle ==
    /\ hpc = "idle"
    /\ hraw = EmptyDict
    /\ henv = EmptyDict
    /\ hres = NoResult
    /\ hlead = EmptyDict

HInit ==
    /\ hpc = "start"
    /\ hraw \in RawLeads
    /\ henv \in Envs
    /\ hres = NoResult
    /\ hlead = EmptyDict

\* enricher.enrich_lead(lead)
HEnrich ==
    /\ hpc = "start"
    /\ hres' = enrich_lead(hraw, henv)
    /\ hpc' = "enriched"
    /\ UNCHANGED <<finder, cvars, uvars, hraw, henv, hlead, svars, pvars>>

\* the email re-validation and calculate_lead_score
HScore ==
    /\ hpc = "enriched"
    /\ ~hres.raised
    /\ hlead' = ScoreLead(hres.value, henv.mx)
    /\ hpc' = "scored"
    /\ UNCHANGED <<finder, cvars, uvars, hraw, henv, hres, svars, pvars>>

\* except Exception as e: ... continue
HCaught ==
    /\ hpc = "enriched"
    /\ hres.raised
    /\ hpc' = "caught"
    /\ UNCHANGED <<finder, cvars, uvars, hraw, henv, hres, hlead, svars, pvars>>

----------------------------------------------------------------------------
(* calculate_lead_score on every combination of the fields it reads, and   *)
(* again after one signal of the lead is turned on.                        *)

Confidences == {0, 69, 70, 89, 90, 100}

ScoreLeads ==
    {DictOf([email_valid |-> ev, email_confidence |-> <<ec>>, phone_valid |-> <<pv>>,
             revenue_estimate |-> rv, tech_stack |-> <<ts>>,
             employee_estimate |-> ee, contact_name |-> <<cn>>,
             social_links |-> <<sl>>]) :
        ev \in {<<>>, <<FALSE>>, <<TRUE>>},
        ec \in Confidences,
        pv \in BOOLEAN,
        rv \in {<<>>, <<"Unknown">>, <<"$0-2M">>},
        ts \in {<<>>, <<"Unknown">>, <<"React", "HubSpot">>},
        ee \in {<<>>, <<"1-10">>},
        cn \in {"", " ", "John Doe"},
        sl \in {EmptyDict, TwoLinks}}

SIdle ==
    /\ spc = "idle"
    /\ slead = EmptyDict
    /\ sscore = 0
    /\ sprev = 0
    /\ signal = "none"

SInit ==
    /\ spc = "start"
    /\ slead \in ScoreLeads
    /\ sscore = 0
    /\ sprev = 0
    /\ signal = "none"

\* calculate_lead_score(lead)
SScore ==
    /\ spc = "start"
    /\ sscore' = calculate_lead_score(slead)
    /\ spc' = "scored"
    /\ UNCHANGED <<finder, cvars, uvars, hvars, slead, sprev, signal, pvars>>

\* the leads that differ from lead in one positive signal, which is on in them
TurnedOn(lead, sig) ==
    CASE sig = "email_valid" ->
            IF Get(lead, "email_valid", FALSE) THEN {}
            ELSE {Put(lead, "email_valid", TRUE)}
      [] sig = "email_confidence" ->
            {Put(lead, "email_confidence", c) :
                c \in {d \in Confidences : d > Get(lead, "email_confidence", 0)}}
      [] sig = "phone_valid" ->
            IF Get(lead, "phone_valid", FALSE) THEN {}
            ELSE {Put(lead, "phone_valid", TRUE)}
      [] sig = "revenue_estimate" ->
            IF Get(lead, "revenue_estimate", "") \in {"", "Unknown"}
            THEN {Put(lead, "revenue_estimate", "$0-2M")} ELSE {}
      [] sig = "tech_stack" ->
            IF Get(lead, "tech_stack", <<>>) = <<>>
            THEN {Put(lead, "tech_stack", <<"React", "HubSpot">>)} ELSE {}
      [] sig = "employee_estimate" ->
            IF Get(lead, "employee_estimate", "") = ""
            THEN {Put(lead, "employee_estimate", "1-10")} ELSE {}
      [] sig = "contact_name" ->
            IF Strip(Get(lead, "contact_name", "")) = ""
            THEN {Put(lead, "contact_name", "John Doe")} ELSE {}
      [] sig = "social_links" ->
            IF DOMAIN Get(lead, "social_links", EmptyDict) = {}
            THEN {Put(lead, "social_links", Linkedin)} ELSE {}

Signals ==
    {"email_valid", "email_confidence", "phone_valid", "revenue_estimate",
     "tech_stack", "employee_estimate", "contact_name", "social_links"}

\* calculate_lead_score of the lead with one more signal
SRescore ==
    /\ spc = "scored"
    /\ \E sig \in Signals :
        \E l \in TurnedOn(slead, sig) :
            /\ slead' = l
            /\ signal' = sig
            /\ sprev' = sscore
            /\ sscore' = calculate_lead_score(l)
    /\ UNCHANGED <<finder, cvars, uvars, hvars, spc, pvars>>

----------------------------------------------------------------------------
(* scraper.py: CompanyScraper *)

MalformedUrl == "http://["

\* if not url.startswith(('http://', 'https://')): url = 'https://' + url
WithScheme(url) ==
    CASE url = "www.HubSpot.com" -> "https://www.HubSpot.com"
      [] OTHER -> url

\* urlparse of an unbalanced '[' raises; else the first label of the
\* domain, title-cased
get_domain_name(url) ==
    CASE url = MalformedUrl -> Raise("Invalid IPv6 URL")
      [] url = "https://www.salesforce.com" -> Ok(<<"Salesforce">>)
      [] url = "https://www.hubspot.com" -> Ok(<<"Hubspot">>)
      [] url = "https://www.HubSpot.com" -> Ok(<<"Hubspot">>)
      [] url = "https://www.zendesk.com" -> Ok(<<"Zendesk">>)
      [] OTHER -> Ok(<<url>>)

\* the matches of email_pattern in the visible text of the model
TextEmails ==
    {"info@hubspot.com", "user@example.com", "Sales@Domain.com", "me@yoursite.org"}

\* e.lower()
LowerEmail(e) == IF e = "Sales@Domain.com" THEN "sales@domain.com" ELSE e

Placeholders == <<"example.com", "domain.com", "yoursite">>

\* x in e, for a lower-cased match e
PlaceholderIn(x, e) ==
    \/ x = "example.com" /\ e = "user@example.com"
    \/ x = "domain.com" /\ e = "sales@domain.com"
    \/ x = "yoursite" /\ e = "me@yoursite.org"

\* the href values of the anchors that match ^mailto:
MailtoHrefs == {"mailto:contact@hubspot.com", "mailto:press@hubspot.com"}

\* mailto['href'].replace('mailto:', '')
WithoutMailto(href) ==
    IF href = "mailto:contact@hubspot.com" THEN "contact@hubspot.com"
    ELSE "press@hubspot.com"

\* emails: re.findall over soup.get_text(); mailtos: the anchors whose
\* href starts with mailto:, in document order
extract_email(emails, mailtos) ==
    IF Len(emails) > 0
    THEN LET filtered == SelectSeq(emails, LAMBDA e :
                            ~\E i \in DOMAIN Placeholders : PlaceholderIn(Placeholders[i], LowerEmail(e)))
         IN  IF Len(filtered) > 0 THEN Str(filtered[1]) ELSE None
    ELSE IF Len(mailtos) > 0 THEN Str(WithoutMailto(mailtos[1]))
    ELSE None

MaxEmails == 2

MInit ==
    /\ fn = "idle"
    /\ args \in [emails : UNION {[1..n -> TextEmails] : n \in 0..MaxEmails},
                 mailtos : UNION {[1..n -> MailtoHrefs] : n \in 0..MaxEmails}]
    /\ ret = None

MExtract ==
    /\ fn = "idle"
    /\ ret' = extract_email(args.emails, args.mailtos)
    /\ fn' = "extract_email"
    /\ UNCHANGED <<finder, cvars, hvars, svars, pvars, args>>

\* social_platforms, in the order the dict is written
social_platforms ==
    <<[platform |-> "linkedin", domain |-> "linkedin.com"],
      [platform |-> "twitter", domain |-> "twitter.com"],
      [platform |-> "facebook", domain |-> "facebook.com"],
      [platform |-> "instagram", domain |-> "instagram.com"]>>

\* the href values of the anchors of the model
Hrefs ==
    {"https://linkedin.com/company/x", "https://linkedin.com/company/y",
     "https://twitter.com/x", "https://twitter.com/share?url=linkedin.com/x",
     "/about"}

\* urljoin(base_url, href): an absolute href stays, a path is put after
\* the base
urljoin(base_url, href) ==
    IF href = "/about" THEN <<base_url, href>> ELSE <<href>>

\* domain in full_url
DomainIn(domain, full_url) ==
    LET href == full_url[Len(full_url)]
    IN  CASE domain = "linkedin.com" ->
                href \in {"https://linkedin.com/company/x", "https://linkedin.com/company/y",
                          "https://twitter.com/share?url=linkedin.com/x"}
          [] domain = "twitter.com" ->
                href \in {"https://twitter.com/x", "https://twitter.com/share?url=linkedin.com/x"}
          [] OTHER -> FALSE

\* the inner loop: the first platform whose domain is in full_url gets
\* the url, whatever it held, and the loop breaks
SetPlatform(social_links, full_url) ==
    LET hits == {i \in DOMAIN social_platforms : DomainIn(social_platforms[i].domain, full_url)}
    IN  IF hits = {} THEN social_links
        ELSE LET first == CHOOSE i \in hits : \A k \in hits : i <= k
             IN  Put(social_links, social_platforms[first].platform, full_url)

RECURSIVE LinksFrom(_, _, _, _)
LinksFrom(links, i, base_url, social_links) ==
    IF i > Len(links) THEN social_links
    ELSE LinksFrom(links, i + 1, base_url, SetPlatform(social_links, urljoin(base_url, links[i])))

\* links = soup.find_all('a', href=True), in document order
extract_social_links(links, base_url) == LinksFrom(links, 1, base_url, EmptyDict)

MaxAnchors == 3

LInit ==
    /\ fn = "idle"
    /\ args \in [links : UNION {[1..n -> Hrefs] : n \in 0..MaxAnchors},
                 base_url : {"https://www.hubspot.com"}]
    /\ ret = None

LExtract ==
    /\ fn = "idle"
    /\ ret' = extract_social_links(args.links, args.base_url)
    /\ fn' = "extract_social_links"
    /\ UNCHANGED <<finder, cvars, hvars, svars, pvars, args>>

\* site: [fetch, lead]: whether requests.get and the parse went through,
\* and the fields the extract_* methods find on the page
scrape_single_url(query, sites) ==
    LET url == WithScheme(query)
    IN  IF url # MalformedUrl /\ sites[url].fetch = "ok"
        THEN Ok(Put(sites[url].lead, "url", url))
        ELSE LET name == get_domain_name(url)
             IN  IF name.raised THEN name
                 ELSE Ok([url |-> url, error |-> "ConnectionError",
                          company_name |-> name.value])

demo_urls ==
    <<"https://www.salesforce.com", "https://www.hubspot.com", "https://www.zendesk.com">>

SearchLimit == 5

search_and_scrape(search_term, sites) ==
    LET n == Min(SearchLimit, Len(demo_urls))
        results == [i \in 1..n |-> scrape_single_url(demo_urls[i], sites)]
    IN  IF \E i \in 1..n : results[i].raised
        THEN results[CHOOSE i \in 1..n : results[i].raised /\ \A k \in 1..(i - 1) : ~results[k].raised]
        ELSE Ok([i \in 1..n |-> results[i].value])

scrape(query, source_type, sites) ==
    IF source_type = "url"
    THEN LET one == scrape_single_url(query, sites)
         IN  IF one.raised THEN one ELSE Ok(<<one.value>>)
    ELSE search_and_scrape(query, sites)

----------------------------------------------------------------------------
(* database.py: tables leads, activity_log and scraping_jobs *)

\* json.dumps(v)
Json(v) == [json |-> v]

\* the named parameters of the INSERT of insert_lead
LeadColumns ==
    {"company_name", "url", "email", "email_valid", "email_confidence",
     "email_provider", "contact_name", "contact_position", "contact_department",
     "phone", "phone_valid", "description", "industry", "employee_estimate",
     "revenue_estimate", "domain_age_years", "registrar", "tech_stack",
     "social_links", "lead_score", "contact_quality", "status"}

NullableNumbers == {"domain_age_years", "email_confidence", "lead_score", "contact_quality"}

\* params = lead_data.copy() with the JSON columns, the default status and
\* the None / 'Unknown' numbers made NULL
InsertParams(lead_data) ==
    LET p1 == Put(lead_data, "tech_stack", Json(Get(lead_data, "tech_stack", <<>>)))
        p2 == Put(p1, "social_links", Json(Get(p1, "social_links", EmptyDict)))
        p3 == Put(p2, "status", Get(p2, "status", "new"))
    IN  [k \in DOMAIN p3 \cup NullableNumbers |->
            IF k \notin NullableNumbers THEN p3[k]
            ELSE IF k \notin DOMAIN p3 THEN None
            ELSE IF k = "domain_age_years"
                 THEN IF p3[k] \in {None, Str("Unknown")} THEN None ELSE p3[k]
                 ELSE Num(p3[k])]

\* equality of url under utf8mb4_unicode_ci, the collation of the UNIQUE key
UrlKey(url) ==
    CASE url = "https://www.HubSpot.com" -> "https://www.hubspot.com"
      [] OTHER -> url

\* the columns ON DUPLICATE KEY UPDATE assigns
UpdatedColumns == LeadColumns \ {"url", "status"}

Cols(params) == [k \in UpdatedColumns |-> params[k]]

\* a plain INSERT into a table without the UNIQUE key on url
PlainInsert(rows, auto, params) ==
    [rows |-> rows \cup {[id |-> auto, url |-> params["url"], status |-> params["status"],
                          created_at |-> auto, updated |-> FALSE, cols |-> Cols(params)]},
     auto |-> auto + 1,
     lastrowid |-> auto]

\* a row replaced by the new record, as REPLACE INTO would
Replaced(old, auto, params) ==
    [old EXCEPT !.cols = Cols(params), !.updated = TRUE,
                !.status = params["status"], !.created_at = auto]

\* ON DUPLICATE KEY UPDATE: the listed columns get the new values and
\* updated_at the time; id, url, status and created_at are not listed
OnDuplicateKey(old, auto, params) ==
    [old EXCEPT !.cols = Cols(params), !.updated = TRUE]

\* INSERT INTO leads ... ON DUPLICATE KEY UPDATE ...; created_at DEFAULT
\* CURRENT_TIMESTAMP is the time of the INSERT, counted by the value of the
\* AUTO_INCREMENT counter
Upsert(rows, auto, params) ==
    LET dup == {r \in rows : UrlKey(r.url) = UrlKey(params["url"])}
    IN  IF dup = {}
        THEN [rows |-> rows \cup {[id |-> auto, url |-> params["url"],
                                   status |-> params["status"],
                                   created_at |-> auto,
                                   updated |-> FALSE, cols |-> Cols(params)]},
              auto |-> auto + 1,
              lastrowid |-> auto]
        ELSE LET old == CHOOSE r \in dup : TRUE
                 changed == old.cols # Cols(params)
             IN  [rows |-> (rows \ {old}) \cup {OnDuplicateKey(old, auto, params)},
                  auto |-> auto,
                  lastrowid |-> IF changed THEN old.id ELSE 0]

\* SELECT * FROM leads WHERE url = %s; cursor.fetchone()
SelectByUrl(rows, url) ==
    LET found == {r \in rows : UrlKey(r.url) = UrlKey(url)}
    IN  IF found = {} THEN None ELSE CHOOSE r \in found : TRUE

\* json.loads(doc) if doc else default
JsonLoads(doc, default) == IF doc = None THEN default ELSE doc.json

\* the dict of a fetched row: the columns as the cursor returns them (a
\* DECIMAL(n,2) column returns the tenths and hundredths it was given), with
\* the JSON columns decoded
get_lead_by_url(rows, url) ==
    LET lead == SelectByUrl(rows, url)
    IN  IF lead = None THEN None
        ELSE [k \in UpdatedColumns \cup {"id", "url", "status"} |->
                CASE k = "id" -> lead.id
                  [] k = "url" -> lead.url
                  [] k = "status" -> lead.status
                  [] k = "tech_stack" -> JsonLoads(lead.cols[k], <<>>)
                  [] k = "social_links" -> JsonLoads(lead.cols[k], EmptyDict)
                  [] OTHER -> lead.cols[k]]

\* ORDER BY lead_score DESC: the row that comes first (rows of one score
\* by id)
TopRow(rows) ==
    CHOOSE r \in rows : \A q \in rows :
        \/ r.cols["lead_score"].n > q.cols["lead_score"].n
        \/ r.cols["lead_score"].n = q.cols["lead_score"].n /\ r.id <= q.id

RECURSIVE Ordered(_, _)
Ordered(rows, limit) ==
    IF rows = {} \/ limit = 0 THEN <<>>
    ELSE <<TopRow(rows)>> \o Ordered(rows \ {TopRow(rows)}, limit - 1)

\* SELECT * FROM leads ORDER BY lead_score DESC LIMIT %s OFFSET 0, each
\* row with its JSON columns decoded
get_all_leads(rows, limit) ==
    LET found == Ordered(rows, limit)
    IN  [i \in 1..Len(found) |-> get_lead_by_url({found[i]}, found[i].url)]

ExportLimit == 10000

\* the columns of the model that hold NULL for some lead
NullableColumns ==
    NullableNumbers \cup {"email", "phone", "contact_position", "contact_department", "registrar"}

\* str(v) of a list or a dict of strings: its items, the strings in single
\* quotes (an empty one has no string to quote)
PyStr(v) == [text |-> v, quote |-> IF DOMAIN v = {} THEN "" ELSE "'"]

\* what csv.DictWriter writes for a value: '' for None, else str(value)
CsvCell(v, k) ==
    IF k \in {"tech_stack", "social_links"} THEN PyStr(v)
    ELSE IF k \in NullableColumns /\ v = None THEN [str |-> ""]
    ELSE [str |-> v]

\* the file export_to_csv writes: the header and one row per fetched lead;
\* no file when there is no lead
export_to_csv(rows) ==
    LET fetched == get_all_leads(rows, ExportLimit)
    IN  IF Len(fetched) = 0 THEN None
        ELSE [fieldnames |-> DOMAIN fetched[1],
              rows |-> [i \in 1..Len(fetched) |->
                          [k \in DOMAIN fetched[1] |-> CsvCell(fetched[i][k], k)]]]

\* the result is [raised, exc, rows, auto, lead_id]
insert_lead(lead_data, rows, auto, up) ==
    LET params == InsertParams(lead_data)
        failed(e) == [raised |-> TRUE, exc |-> e, rows |-> rows, auto |-> auto, lead_id |-> 0]
    IN  IF ~up THEN failed("OperationalError")
        ELSE IF ~(LeadColumns \subseteq DOMAIN params) THEN failed("KeyError")
        ELSE LET done == Upsert(rows, auto, params)
                 lead_id == IF done.lastrowid # 0 THEN done.lastrowid
                            ELSE get_lead_by_url(done.rows, params["url"])["id"]
             IN  [raised |-> FALSE, exc |-> "", rows |-> done.rows,
                  auto |-> done.auto, lead_id |-> lead_id]

\* INSERT INTO activity_log ...; lead_id REFERENCES leads(id)
log_activity(log, rows, lead_id, activity_type, up) ==
    IF ~up THEN [raised |-> TRUE, exc |-> "OperationalError", log |-> log]
    ELSE IF \A r \in rows : r.id # lead_id
         THEN [raised |-> TRUE, exc |-> "IntegrityError", log |-> log]
    ELSE [raised |-> FALSE, exc |-> "",
          log |-> Append(log, [lead_id |-> lead_id, activity_type |-> activity_type])]

\* table scraping_jobs without rows
NoJobs == [j \in {} |-> None]

\* INSERT INTO scraping_jobs (...) VALUES (%s, %s, 'running', NOW())
create_scraping_job(table, query, source_type) ==
    LET job_id == Cardinality(DOMAIN table) + 1
    IN  [j \in DOMAIN table \cup {job_id} |->
            IF j = job_id
            THEN [query |-> query, source_type |-> source_type, status |-> "running",
                  leads_found |-> 0, error_message |-> None]
            ELSE table[j]]

\* status = 'failed' if error_message else 'completed'
JobStatus(error_message) == IF Truthy(error_message) THEN "failed" ELSE "completed"

\* UPDATE scraping_jobs SET status, leads_found, error_message WHERE id = %s
complete_scraping_job(table, job_id, leads_found, error_message) ==
    [table EXCEPT ![job_id] =
        [@ EXCEPT !.status = JobStatus(error_message),
                  !.leads_found = leads_found,
                  !.error_message = error_message]]

----------------------------------------------------------------------------
(* setup.py: create_sample_data *)

sample_leads ==
    << [company_name |-> <<"Stripe">>, url |-> "https://www.stripe.com",
        email |-> Email("info", "stripe.com"), email_valid |-> TRUE,
        email_confidence |-> 85, email_provider |-> "Business Email",
        contact_name |-> "Patrick Collison", contact_position |-> Str("CEO"),
        contact_department |-> Str("Executive"),
        phone |-> Phone(<<"+", "1", "-", "8", "8", "8", "-", "9", "2", "6", "-", "2", "2", "8", "9">>),
        phone_valid |-> TRUE,
        description |-> <<"online", "payment", "processing">>,
        industry |-> "Finance", employee_estimate |-> "100-500",
        revenue_estimate |-> "$20M-100M", domain_age_years |-> Num(155),
        registrar |-> Str("MarkMonitor Inc."),
        tech_stack |-> <<"React", "Ruby", "JavaScript">>, social_links |-> TwoLinks,
        lead_score |-> 95, contact_quality |-> 450, status |-> "new"],
       [company_name |-> <<"HubSpot">>, url |-> "https://www.hubspot.com",
        email |-> Email("contact", "hubspot.com"), email_valid |-> TRUE,
        email_confidence |-> 90, email_provider |-> "Business Email",
        contact_name |-> "Yamini Rangan", contact_position |-> Str("CEO"),
        contact_department |-> Str("Executive"),
        phone |-> Phone(<<"+", "1", "-", "8", "8", "8", "-", "4", "8", "2", "-", "7", "7", "6", "8">>),
        phone_valid |-> TRUE,
        description |-> <<"inbound", "marketing", "software">>,
        industry |-> "Marketing", employee_estimate |-> "100-500",
        revenue_estimate |-> "$20M-100M", domain_age_years |-> Num(180),
        registrar |-> Str("MarkMonitor Inc."),
        tech_stack |-> <<"JavaScript", "React", "Node.js">>, social_links |-> TwoLinks,
        lead_score |-> 92, contact_quality |-> 480, status |-> "new"] >>

\* for lead in sample_leads: db.insert_lead(lead), from the given store on
RECURSIVE InsertAll(_, _, _, _)
InsertAll(batch, rows, auto, up) ==
    IF batch = <<>> THEN [raised |-> FALSE, rows |-> rows, auto |-> auto]
    ELSE LET one == insert_lead(Head(batch), rows, auto, up)
         IN  IF one.raised THEN [raised |-> TRUE, rows |-> one.rows, auto |-> one.auto]
             ELSE InsertAll(Tail(batch), one.rows, one.auto, up)

----------------------------------------------------------------------------
(* insert_lead followed by get_lead_by_url, for leads with every column    *)
(* of the INSERT and an empty or a filled table.                           *)

\* complete lead dicts: a sample lead with other enrichment values
StorableLeads ==
    {[sample_leads[2] EXCEPT
        !["url"] = u, !["domain_age_years"] = age, !["registrar"] = reg,
        !["tech_stack"] = ts, !["social_links"] = sl, !["contact_quality"] = cq,
        !["industry"] = ind] :
        u \in {"https://www.hubspot.com", "https://www.HubSpot.com", "https://www.zendesk.com"},
        age \in {Num(155), Num(0), Str("Unknown")},
        reg \in {None, Str("MarkMonitor Inc.")},
        ts \in {<<>>, <<"Unknown">>, <<"React", "HubSpot">>},
        sl \in {EmptyDict, Linkedin, TwoLinks},
        cq \in {0, 50, 480, 500},
        ind \in {"Marketing", "General Business"}}

\* the table after setup.py has inserted the sample leads
SampleTable == InsertAll(sample_leads, {}, 1, TRUE)

RInit ==
    /\ fn = "start"
    /\ args \in [lead_data : StorableLeads]
    /\ ret = None
    /\ world = EmptyDict
    /\ db_up = TRUE
    /\ outages = 0
    /\ \E table \in {[rows |-> {}, auto |-> 1], SampleTable} :
        /\ leads = table.rows
        /\ next_id = table.auto
    /\ activity_log = <<>>
    /\ jobs = NoJobs
    /\ threads = NoJobs

\* db.insert_lead(lead_data)
RInsert ==
    /\ fn = "start"
    /\ LET stored == insert_lead(args.lead_data, leads, next_id, db_up)
       IN  /\ leads' = stored.rows
           /\ next_id' = stored.auto
           /\ ret' = Num(stored.lead_id)
    /\ fn' = "insert_lead"
    /\ UNCHANGED <<finder, cvars, hvars, svars, world, db_up, outages, activity_log, jobs, threads, args>>

\* db.get_lead_by_url(lead_data['url'])
RFetch ==
    /\ fn = "insert_lead"
    /\ ret' = get_lead_by_url(leads, args.lead_data["url"])
    /\ fn' = "get_lead_by_url"
    /\ UNCHANGED <<finder, cvars, hvars, svars, pvars, args>>

\* db.export_to_csv(), on the table as it is or after the insert
RExport ==
    /\ fn \in {"start", "insert_lead"}
    /\ ret' = export_to_csv(leads)
    /\ fn' = "export_to_csv"
    /\ UNCHANGED <<finder, cvars, hvars, svars, pvars, args>>

----------------------------------------------------------------------------
(* The outside world of a pipeline run: per site, what the scraper gets   *)
(* and what the finder API, the page fetch, WHOIS and DNS answer.         *)

SiteUrls ==
    {"https://www.salesforce.com", "https://www.hubspot.com",
     "https://www.zendesk.com", "https://www.HubSpot.com"}

PageOf(name) ==
    [company_name |-> <<name>>, email |-> Email("info", "hubspot.com"),
     phone |-> ValidPhone, description |-> <<"inbound", "marketing", "software">>,
     social_links |-> TwoLinks]

AllRecords == [i \in 1..4 |-> "records"]

EnvFull ==
    [api |-> [key |-> TRUE, resp |-> "200", emails |-> <<HunterHigh>>],
     page |-> [ok |-> TRUE, found |-> {"hubspot", "hs-analytics", "gtag"}],
     whois |-> [ok |-> TRUE, creation |-> Num(4380), registrar |-> Str("MarkMonitor Inc.")],
     mx |-> AllRecords]

EnvLowConfidence ==
    [EnvFull EXCEPT !.api = [key |-> TRUE, resp |-> "200", emails |-> <<HunterLow>>]]

EnvNoContact ==
    [EnvFull EXCEPT !.api = [key |-> TRUE, resp |-> "200", emails |-> <<>>]]

EnvNoWhois ==
    [EnvFull EXCEPT !.whois = [ok |-> FALSE, creation |-> None, registrar |-> None]]

EnvNoPage ==
    [EnvFull EXCEPT !.page = [ok |-> FALSE, found |-> {}]]

Site(fetch, name, env) == [fetch |-> fetch, lead |-> PageOf(name), env |-> env]

Worlds ==
    {[u \in SiteUrls |->
        CASE u = "https://www.salesforce.com" -> Site("ok", "Salesforce", EnvFull)
          [] u = "https://www.hubspot.com" -> Site("ok", "HubSpot", EnvLowConfidence)
          [] u = "https://www.zendesk.com" -> Site("ok", "Zendesk", EnvNoPage)
          [] OTHER -> Site("ok", "HubSpot", EnvFull)],
     [u \in SiteUrls |->
        CASE u = "https://www.salesforce.com" -> Site("ok", "Salesforce", EnvNoContact)
          [] u = "https://www.hubspot.com" -> Site("ok", "HubSpot", EnvFull)
          [] u = "https://www.zendesk.com" -> Site("error", "Zendesk", EnvFull)
          [] OTHER -> Site("ok", "HubSpot", EnvNoWhois)]}

\* the scrape requests of the model: the json body of POST /api/scrape
Requests ==
    {[query |-> "https://www.hubspot.com", type |-> "url"],
     [query |-> "www.HubSpot.com", type |-> "url"],
     [query |-> MalformedUrl, type |-> "url"],
     [query |-> "crm", type |-> "search"]}

MaxJobs == 2
MaxOutages == 1

\* scrape called on its own: the query, the source type, and per site
\* whether the fetch and the parse go through
ScrapeQueries == SiteUrls \cup {"www.HubSpot.com", MalformedUrl}

ScrapeSites ==
    [SiteUrls -> {Site("ok", "HubSpot", EnvFull), Site("error", "HubSpot", EnvFull)}]

XInit ==
    /\ world \in ScrapeSites
    /\ db_up = TRUE
    /\ outages = 0
    /\ leads = {}
    /\ next_id = 1
    /\ activity_log = <<>>
    /\ jobs = NoJobs
    /\ threads = NoJobs
    /\ fn = "idle"
    /\ args \in [query : ScrapeQueries, source_type : {"url", "search"}]
    /\ ret = None

XScrape ==
    /\ fn = "idle"
    /\ ret' = scrape(args.query, args.source_type, world)
    /\ fn' = "scrape"
    /\ UNCHANGED <<finder, cvars, hvars, svars, pvars, args>>

----------------------------------------------------------------------------
(* app.py: scrape_leads and background_scrape; the state of the           *)
(* thread of a job is [pc, raw_leads, i, leads_count, lead_id, e,         *)
(* outcomes]: outcomes lists, per lead taken from raw_leads, its url and   *)
(* the call that raised for it, or "counted".                              *)

PIdle ==
    /\ world = EmptyDict
    /\ db_up = TRUE
    /\ outages = 0
    /\ leads = {}
    /\ next_id = 1
    /\ activity_log = <<>>
    /\ jobs = NoJobs
    /\ threads = NoJobs

PInit ==
    /\ world \in Worlds
    /\ db_up = TRUE
    /\ outages = 0
    /\ leads = {}
    /\ next_id = 1
    /\ activity_log = <<>>
    /\ jobs = NoJobs
    /\ threads = NoJobs

NewThread ==
    [pc |-> "scrape", raw_leads |-> <<>>, i |-> 1, leads_count |-> 0,
     lead_id |-> 0, e |-> "", outcomes |-> <<>>]

\* POST /api/scrape: create the job and start its thread; a request
\* without a query, or one that cannot create the job, changes nothing
scrape_leads ==
    /\ Cardinality(DOMAIN jobs) < MaxJobs
    /\ db_up
    /\ \E data \in Requests :
        /\ data.query # ""
        /\ jobs' = create_scraping_job(jobs, data.query, data.type)
        /\ threads' = [j \in DOMAIN jobs' |->
                          IF j \in DOMAIN threads THEN threads[j] ELSE NewThread]
    /\ UNCHANGED <<finder, cvars, uvars, hvars, svars, world, db_up, outages, leads, next_id, activity_log>>

\* raw_leads = scraper.scrape(query, source_type); leads_count = 0
Scrape(j) ==
    /\ threads[j].pc = "scrape"
    /\ LET raw == scrape(jobs[j].query, jobs[j].source_type, world)
       IN  threads' = [threads EXCEPT ![j] =
                IF raw.raised THEN [@ EXCEPT !.pc = "handler", !.e = raw.exc]
                ELSE [@ EXCEPT !.pc = "lead", !.raw_leads = raw.value]]
    /\ UNCHANGED <<finder, cvars, uvars, hvars, svars, world, db_up, outages, leads, next_id, activity_log, jobs>>

Outcome(lead, result) == [url |-> Get(lead, "url", ""), result |-> result]

\* a handler that counts the lead it caught
CaughtCounted(t, lead, call) ==
    [t EXCEPT !.pc = "lead", !.i = @ + 1, !.leads_count = @ + 1,
              !.outcomes = Append(@, Outcome(lead, call))]

\* except Exception as e: print(...); continue
Caught(t, lead, call) ==
    [t EXCEPT !.pc = "lead", !.i = @ + 1,
              !.outcomes = Append(@, Outcome(lead, call))]

\* the loop body up to lead_id = db.insert_lead(enriched); an exception
\* goes to the except clause of the loop, which continues with the next lead
StoreLead(j) ==
    /\ threads[j].pc = "lead"
    /\ threads[j].i <= Len(threads[j].raw_leads)
    /\ LET t == threads[j]
           lead == t.raw_leads[t.i]
           env == world[lead["url"]].env
           enriched == enrich_lead(lead, env)
           stored == insert_lead(ScoreLead(enriched.value, env.mx), leads, next_id, db_up)
       IN  IF enriched.raised
           THEN /\ threads' = [threads EXCEPT ![j] = Caught(t, lead, "enrich_lead")]
                /\ UNCHANGED <<leads, next_id>>
           ELSE IF stored.raised
           THEN /\ threads' = [threads EXCEPT ![j] = Caught(t, lead, "insert_lead")]
                /\ UNCHANGED <<leads, next_id>>
           ELSE /\ leads' = stored.rows
                /\ next_id' = stored.auto
                /\ threads' = [threads EXCEPT ![j] =
                        [t EXCEPT !.pc = "log", !.lead_id = stored.lead_id]]
    /\ UNCHANGED <<finder, cvars, uvars, hvars, svars, world, db_up, outages, activity_log, jobs>>

\* db.log_activity(lead_id, 'lead_created', ...); leads_count += 1
LogActivity(j) ==
    /\ threads[j].pc = "log"
    /\ LET t == threads[j]
           lead == t.raw_leads[t.i]
           logged == log_activity(activity_log, leads, t.lead_id, "lead_created", db_up)
       IN  /\ activity_log' = logged.log
           /\ threads' = [threads EXCEPT ![j] =
                IF logged.raised
                THEN Caught(t, lead, "log_activity")
                ELSE [t EXCEPT !.pc = "lead", !.i = @ + 1,
                               !.leads_count = @ + 1,
                               !.outcomes = Append(@, Outcome(lead, "counted"))]]
    /\ UNCHANGED <<finder, cvars, uvars, hvars, svars, world, db_up, outages, leads, next_id, jobs>>

\* after the loop: db.complete_scraping_job(job_id, leads_count); if it
\* raises, the outer except clause is entered with its error
CompleteJob(j) ==
    /\ threads[j].pc = "lead"
    /\ threads[j].i > Len(threads[j].raw_leads)
    /\ IF db_up
       THEN /\ jobs' = complete_scraping_job(jobs, j, threads[j].leads_count, None)
            /\ threads' = [threads EXCEPT ![j].pc = "done"]
       ELSE /\ threads' = [threads EXCEPT ![j].pc = "handler",
                                          ![j].e = "OperationalError"]
            /\ UNCHANGED jobs
    /\ UNCHANGED <<finder, cvars, uvars, hvars, svars, world, db_up, outages, leads, next_id, activity_log>>

\* except Exception as e: db.complete_scraping_job(job_id, 0, str(e)); if
\* this raises as well, the thread ends with the exception
FailJob(j) ==
    /\ threads[j].pc = "handler"
    /\ IF db_up
       THEN /\ jobs' = complete_scraping_job(jobs, j, 0, Str(threads[j].e))
            /\ threads' = [threads EXCEPT ![j].pc = "done"]
       ELSE /\ threads' = [threads EXCEPT ![j].pc = "dead"]
            /\ UNCHANGED jobs
    /\ UNCHANGED <<finder, cvars, uvars, hvars, svars, world, db_up, outages, leads, next_id, activity_log>>

\* setup.py, run when the application is installed: insert the sample
\* leads; the first failing insert ends it
create_sample_data ==
    /\ db_up
    /\ jobs = NoJobs
    /\ LET done == InsertAll(sample_leads, leads, next_id, db_up)
       IN  /\ leads' = done.rows
           /\ next_id' = done.auto
    /\ UNCHANGED <<finder, cvars, uvars, hvars, svars, world, db_up, outages, activity_log, jobs, threads>>

\* MySQL stops accepting connections, and accepts them again
DbDown ==
    /\ db_up
    /\ outages < MaxOutages
    /\ db_up' = FALSE
    /\ outages' = outages + 1
    /\ UNCHANGED <<finder, cvars, uvars, hvars, svars, world, leads, next_id, activity_log, jobs, threads>>

DbUp ==
    /\ ~db_up
    /\ db_up' = TRUE
    /\ UNCHANGED <<finder, cvars, uvars, hvars, svars, world, outages, leads, next_id, activity_log, jobs, threads>>

----------------------------------------------------------------------------
(* app.py: the lead routes PUT and DELETE /api/leads/<id> *)

\* the values of ENUM column leads.status
LeadStatuses == {"new", "contacted", "qualified", "unqualified", "converted"}

\* the status of the json body of a PUT request
StatusRequests == {"new", "contacted", "archived"}

MaxStatusChanges == 1
MaxDeletes == 1

\* UPDATE leads SET status = %s WHERE id = %s; rowcount counts the rows the
\* statement changed, and a value outside the ENUM is an error
update_lead_status(rows, lead_id, status) ==
    LET hit == {r \in rows : r.id = lead_id /\ r.status # status}
    IN  IF status \notin LeadStatuses /\ hit # {}
        THEN [raised |-> TRUE, rows |-> rows, success |-> FALSE]
        ELSE [raised |-> FALSE,
              rows |-> (rows \ hit) \cup {[r EXCEPT !.status = status] : r \in hit},
              success |-> hit # {}]

StatusChanges(log) ==
    Cardinality({k \in 1..Len(log) : log[k].activity_type = "status_changed"})

\* PUT /api/leads/<lead_id>: set the status and log the change
update_lead ==
    /\ db_up
    /\ StatusChanges(activity_log) < MaxStatusChanges
    /\ \E lead_id \in 1..next_id, status \in StatusRequests :
        LET done == update_lead_status(leads, lead_id, status)
            logged == log_activity(activity_log, done.rows, lead_id, "status_changed", db_up)
        IN  /\ leads' = done.rows
            /\ activity_log' = IF done.success THEN logged.log ELSE activity_log
    /\ UNCHANGED <<finder, cvars, uvars, hvars, svars, world, db_up, outages, next_id, jobs, threads>>

\* the ids AUTO_INCREMENT has handed out whose row is gone
Deleted == (next_id - 1) - Cardinality(leads)

\* DELETE /api/leads/<lead_id>: DELETE FROM leads WHERE id = %s, with the
\* ON DELETE CASCADE of activity_log.lead_id
delete_lead ==
    /\ db_up
    /\ Deleted < MaxDeletes
    /\ \E lead_id \in 1..next_id :
        /\ leads' = {r \in leads : r.id # lead_id}
        /\ activity_log' = SelectSeq(activity_log, LAMBDA a : a.lead_id # lead_id)
    /\ UNCHANGED <<finder, cvars, uvars, hvars, svars, world, db_up, outages, next_id, jobs, threads>>

----------------------------------------------------------------------------
(* update_lead_status followed by insert_lead, once and again, on an      *)
(* empty table and on the table of the sample leads.                      *)

\* leads for a table that has a row for hubspot.com: the same url, the url
\* in other letters and a new url, with a status, another status and none
StatusLeads ==
    LET base == {[sample_leads[2] EXCEPT !["url"] = u, !["industry"] = ind] :
                    u \in {"https://www.hubspot.com", "https://www.HubSpot.com",
                           "https://www.zendesk.com"},
                    ind \in {"Marketing", "General Business"}}
    IN  base \cup {[l EXCEPT !["status"] = "qualified"] : l \in base}
             \cup {[k \in DOMAIN l \ {"status"} |-> l[k]] : l \in base}

TInit ==
    /\ fn = "start"
    /\ args \in [lead_data : StatusLeads]
    /\ ret = None
    /\ world = EmptyDict
    /\ db_up = TRUE
    /\ outages = 0
    /\ \E table \in {[rows |-> {}, auto |-> 1], SampleTable} :
        /\ leads = table.rows
        /\ next_id = table.auto
    /\ activity_log = <<>>
    /\ jobs = NoJobs
    /\ threads = NoJobs

\* db.update_lead_status(lead_id, status) on the table as set up
TUpdate ==
    /\ fn = "start"
    /\ \E lead_id \in 1..2, status \in LeadStatuses :
        LET done == update_lead_status(leads, lead_id, status)
        IN  /\ leads' = done.rows
            /\ ret' = [success |-> done.success]
    /\ fn' = "update_lead_status"
    /\ UNCHANGED <<finder, cvars, hvars, svars, world, db_up, outages, next_id, activity_log, jobs, threads, args>>

\* db.insert_lead(lead_data), a first time and again; ret keeps the table
\* the call found
TInsert ==
    /\ fn \in {"start", "update_lead_status", "insert_lead"}
    /\ LET stored == insert_lead(args.lead_data, leads, next_id, db_up)
       IN  /\ leads' = stored.rows
           /\ next_id' = stored.auto
           /\ ret' = [before |-> leads, lead_id |-> stored.lead_id]
    /\ fn' = IF fn = "insert_lead" THEN "insert_lead again" ELSE "insert_lead"
    /\ UNCHANGED <<finder, cvars, hvars, svars, world, db_up, outages, activity_log, jobs, threads, args>>

----------------------------------------------------------------------------
(* database.py: the connection pool and the get_connection context         *)
(* manager. A caller is a thread inside one `with self.get_connection()`   *)
(* block: [caller, pc, conn, txn, exc, inner, lost].                       *)

PoolSize == 5

\* the connector the import at the top of database.py found
Connectors == {"mysql.connector", "pymysql"}

\* __init__ and init_pool: a pool of pool_size connections, or no pool
NewPool(kind) == [kind |-> kind, free |-> PoolSize]

\* no block has been entered
CIdle ==
    /\ pool = NewPool("mysql.connector")
    /\ conns = <<>>

NewCaller(caller) ==
    [caller |-> caller, pc |-> "idle", conn |-> "none", txn |-> "none",
     exc |-> "", inner |-> "none", lost |-> FALSE]

\* _create_connection: pymysql.connect, or connection_pool.get_connection(),
\* which raises PoolError when the queue of the pool is empty
create_connection(p) ==
    IF p.kind = "pymysql" THEN [raised |-> FALSE, pool |-> p]
    ELSE IF p.free = 0 THEN [raised |-> TRUE, pool |-> p]
    ELSE [raised |-> FALSE, pool |-> [p EXCEPT !.free = @ - 1]]

\* connection.close() of a connection that is connected: back to the queue
\* of the pool, or closed
close(p) == IF p.kind = "pymysql" THEN p ELSE [p EXCEPT !.free = @ + 1]

\* if connection.is_connected(): (if connection.open:)
is_connected(lost) == ~lost

\* the exit of the block of caller c: connection.commit() after the yield,
\* connection.rollback() in `except Error`, nothing for another exception,
\* and the finally clause; a transaction left open ends rolled back when
\* the connection is reset, closed or lost. outcome is how the block ended:
\* "normal", "Error" or "other"; lost: the server has dropped the connection
ExitBlock(c, p, outcome, lost) ==
    LET handled == CASE outcome = "normal" -> "committed"
                     [] outcome = "Error" -> "rolled back"
                     [] OTHER -> c.txn
        closes == is_connected(lost)
        txn == IF handled = "open" THEN "rolled back" ELSE handled
    IN  [caller |-> [c EXCEPT !.pc = "exited",
                              !.txn = txn,
                              !.exc = IF outcome = "normal" THEN "" ELSE outcome,
                              !.lost = lost,
                              !.conn = IF closes \/ p.kind = "pymysql"
                                       THEN "closed" ELSE "leaked"],
         pool |-> IF closes THEN close(p) ELSE p]

MaxCallers == 4
MaxLost == 1

Outcomes == {"normal", "Error", "other"}

Lost == Cardinality({w \in DOMAIN conns : conns[w].lost})

GInit ==
    /\ pool \in {NewPool(kind) : kind \in Connectors}
    /\ conns \in [1..MaxCallers -> {NewCaller("insert_lead"), NewCaller("log_activity")}]

\* with self.get_connection() as conn: the block is entered, or
\* _create_connection raises and the exception leaves get_connection
\* (connection is None: no rollback, nothing to close)
GEnter(w) ==
    /\ conns[w].pc = "idle"
    /\ LET made == create_connection(pool)
       IN  /\ pool' = made.pool
           /\ conns' = [conns EXCEPT ![w] =
                IF made.raised
                THEN [@ EXCEPT !.pc = "exited", !.exc = "PoolError"]
                ELSE [@ EXCEPT !.pc = "block", !.conn = "held", !.txn = "open"]]
    /\ UNCHANGED <<finder, hvars, svars, pvars, uvars>>

\* insert_lead with cursor.lastrowid 0: self.get_lead_by_url(...) enters
\* its own block while the connection of insert_lead is held; when
\* _create_connection raises there, the PoolError (an Error) ends the
\* block of insert_lead
GNested(w) ==
    /\ conns[w].pc = "block"
    /\ conns[w].caller = "insert_lead"
    /\ conns[w].inner = "none"
    /\ LET made == create_connection(pool)
           left == ExitBlock([conns[w] EXCEPT !.inner = "failed"], pool, "Error", FALSE)
       IN  IF made.raised
           THEN /\ pool' = left.pool
                /\ conns' = [conns EXCEPT ![w] = [left.caller EXCEPT !.exc = "PoolError"]]
           ELSE /\ pool' = made.pool
                /\ conns' = [conns EXCEPT ![w] = [@ EXCEPT !.pc = "nested", !.inner = "held"]]
    /\ UNCHANGED <<finder, hvars, svars, pvars, uvars>>

\* the block of get_lead_by_url ends: commit and close
GNestedExit(w) ==
    /\ conns[w].pc = "nested"
    /\ pool' = close(pool)
    /\ conns' = [conns EXCEPT ![w] = [@ EXCEPT !.pc = "block", !.inner = "closed"]]
    /\ UNCHANGED <<finder, hvars, svars, pvars, uvars>>

\* the block ends, normally or with an exception; a connection the server
\* has dropped makes the statement, or the commit, raise an Error
GExit(w) ==
    /\ conns[w].pc = "block"
    /\ \E outcome \in Outcomes, lost \in BOOLEAN :
        /\ lost => (outcome = "Error" /\ Lost < MaxLost)
        /\ LET left == ExitBlock(conns[w], pool, outcome, lost)
           IN  /\ pool' = left.pool
               /\ conns' = [conns EXCEPT ![w] = left.caller]
    /\ UNCHANGED <<finder, hvars, svars, pvars, uvars>>

----------------------------------------------------------------------------
(* Specifications *)

InitEnrich == finder = "source" /\ HInit /\ SIdle /\ PIdle /\ UIdle /\ CIdle
NextEnrich == HEnrich \/ HScore \/ HCaught
\* one lead through the code as it is
SpecEnrich == InitEnrich /\ [][NextEnrich]_vars

InitEnrichFinder == finder = "spec" /\ HInit /\ SIdle /\ PIdle /\ UIdle /\ CIdle
NextEnrichFinder == HEnrich \/ HScore
\* the same run with the finder answering as it is specified to
SpecEnrichFinder == InitEnrichFinder /\ [][NextEnrichFinder]_vars

InitScore == finder = "source" /\ HIdle /\ SInit /\ PIdle /\ UIdle /\ CIdle
NextScore == SScore \/ SRescore
\* the lead score as a function of the fields it reads
SpecScore == InitScore /\ [][NextScore]_vars

Init == finder \in {"source", "spec"} /\ HIdle /\ SIdle /\ PInit /\ UIdle /\ CIdle
Next ==
    \/ scrape_leads
    \/ \E j \in DOMAIN threads : Scrape(j)
    \/ \E j \in DOMAIN threads : StoreLead(j)
    \/ \E j \in DOMAIN threads : LogActivity(j)
    \/ \E j \in DOMAIN threads : CompleteJob(j)
    \/ \E j \in DOMAIN threads : FailJob(j)
    \/ create_sample_data
    \/ DbDown
    \/ DbUp
\* the pipeline, with the finder of the source and with the specified one
Spec == Init /\ [][Next]_vars

NextStore ==
    \/ scrape_leads
    \/ \E j \in DOMAIN threads : Scrape(j)
    \/ \E j \in DOMAIN threads : StoreLead(j)
    \/ \E j \in DOMAIN threads : LogActivity(j)
    \/ \E j \in DOMAIN threads : CompleteJob(j)
    \/ \E j \in DOMAIN threads : FailJob(j)
    \/ update_lead
    \/ delete_lead
\* the pipeline and the lead routes over a database that stays up, in the
\* world where every site answers
InitStore ==
    /\ finder \in {"source", "spec"}
    /\ HIdle /\ SIdle /\ PInit /\ UIdle /\ CIdle
    /\ \A u \in SiteUrls : world[u].fetch = "ok"
SpecStore == InitStore /\ [][NextStore]_vars

InitRoundTrip == finder = "source" /\ HIdle /\ SIdle /\ RInit /\ CIdle
NextRoundTrip == RInsert \/ RFetch
\* a lead stored and fetched again
SpecRoundTrip == InitRoundTrip /\ [][NextRoundTrip]_vars

InitValidator == finder = "source" /\ HIdle /\ SIdle /\ PIdle /\ VInit /\ CIdle
NextValidator == VValidate \/ VConfidence
\* the validator as a function of the email and the DNS answer
SpecValidator == InitValidator /\ [][NextValidator]_vars

InitClassify == finder = "source" /\ HIdle /\ SIdle /\ PIdle /\ CInit /\ CIdle
NextClassify == CClassify \/ CAgain
\* classify_industry as a function of the lead
SpecClassify == InitClassify /\ [][NextClassify]_vars

InitEstimate == finder = "source" /\ HIdle /\ SIdle /\ PIdle /\ EInit /\ CIdle
NextEstimate == EEmployees \/ ERevenue
\* the employee and revenue estimates as functions of the lead
SpecEstimate == InitEstimate /\ [][NextEstimate]_vars

InitScrape == finder = "source" /\ HIdle /\ SIdle /\ XInit /\ CIdle
NextScrape == XScrape
\* scrape as a function of the query and of what the sites answer
SpecScrape == InitScrape /\ [][NextScrape]_vars

InitLinks == finder = "source" /\ HIdle /\ SIdle /\ PIdle /\ LInit /\ CIdle
NextLinks == LExtract
\* extract_social_links as a function of the anchors of the page
SpecLinks == InitLinks /\ [][NextLinks]_vars

InitMail == finder = "source" /\ HIdle /\ SIdle /\ PIdle /\ MInit /\ CIdle
NextMail == MExtract
\* extract_email as a function of the text and the mailto links of the page
SpecMail == InitMail /\ [][NextMail]_vars

InitExport == finder = "source" /\ HIdle /\ SIdle /\ RInit /\ CIdle
NextExport == RInsert \/ RExport
\* a lead stored and the table exported
SpecExport == InitExport /\ [][NextExport]_vars

InitStatus == finder = "source" /\ HIdle /\ SIdle /\ TInit /\ CIdle
NextStatus == TUpdate \/ TInsert
\* status updates and repeated inserts of one lead
SpecStatus == InitStatus /\ [][NextStatus]_vars

InitPool == finder = "source" /\ HIdle /\ SIdle /\ PIdle /\ UIdle /\ GInit
NextPool ==
    \/ \E w \in DOMAIN conns : GEnter(w)
    \/ \E w \in DOMAIN conns : GNested(w)
    \/ \E w \in DOMAIN conns : GNestedExit(w)
    \/ \E w \in DOMAIN conns : GExit(w)
\* concurrent get_connection blocks over one Database object
SpecPool == InitPool /\ [][NextPool]_vars

InitQuality == finder = "source" /\ HIdle /\ SIdle /\ PIdle /\ QInit /\ CIdle
NextQuality == QRate
\* the contact-quality rating as a function of the lead
SpecQuality == InitQuality /\ [][NextQuality]_vars

----------------------------------------------------------------------------
(* Claims about one lead: enrich_lead and calculate_lead_score *)

\* the contact the specified finder has for the lead of the single-lead run
HContact == bestEmailFor(Get(hraw, "url", ""), henv.api)

LaterSteps ==
    {"tech_stack", "employee_estimate", "revenue_estimate", "industry",
     "phone_valid", "contact_quality"}

\* C6: for every lead with a non-empty url enrich_lead returns without
\* raising, and when the finder has no contact it sets email=null,
\* email_valid=false, email_confidence=0 and still carries out every later
\* step.
C6_EnrichReturns ==
    (hpc # "start" /\ Get(hraw, "url", "") # "") =>
        /\ ~hres.raised
        /\ HContact = None =>
            /\ hres.value["email"] = None
            /\ hres.value["email_valid"] = FALSE
            /\ hres.value["email_confidence"] = 0
            /\ LaterSteps \subseteq DOMAIN hres.value

\* C7: when the finder returns a contact, email_confidence and email_valid
\* of the lead are the validator's results for the adopted email, and the
\* contact-quality rating and the lead score are computed from those same
\* values (the DNS answers being the same at every lookup).
C7_ValidatorAuthoritative ==
    (/\ hpc = "scored"
     /\ HContact # None
     /\ \A i \in 1..4 : henv.mx[i] = henv.mx[1]) =>
        /\ hlead["email_confidence"] = get_confidence_score(hlead["email"], henv.mx[1])
        /\ hlead["email_valid"] = validate_email(hlead["email"], henv.mx[1])
        /\ hlead["lead_score"] = calculate_lead_score(hlead)
        /\ hlead["contact_quality"] = rate_contact_quality(hlead)

\* C8: calculate_lead_score returns an integer in [0,100] for every
\* combination of the lead fields it reads.
C8_ScoreInRange == spc = "scored" => sscore \in 0..100

\* a lead with every signal on, whose uncapped sum is 120
C8_Witness ==
    /\ spc = "scored"
    /\ signal = "none"
    /\ \A sig \in Signals : TurnedOn(slead, sig) = {}
    /\ sscore = 100

\* C9: turning on one positive signal of a lead, the others unchanged,
\* never lowers calculate_lead_score.
C9_Monotone == signal # "none" => sscore >= sprev

\* a lead moved to a higher email-confidence tier, whose score rose
C9_Witness == signal = "email_confidence" /\ sscore > sprev

\* C10: the raw lead of Example Corp, with no email found, no WHOIS data,
\* tech_stack ["Unknown"] and no phone, comes out of enrich_lead and
\* calculate_lead_score with email=null, email_valid=false,
\* email_confidence=0, industry "SaaS", employee_estimate "1-10",
\* revenue_estimate "$0-2M", phone_valid=false, contact_quality 0.5 and
\* lead_score 55.
C10_ExampleCorp ==
    (/\ hpc \in {"scored", "caught"}
     /\ hraw = ExampleCorp
     /\ HContact = None
     /\ get_domain_info(henv.whois) \in {EmptyDict, [domain_age_years |-> Str("Unknown")]}
     /\ detect_tech_stack(henv.page) = <<"Unknown">>) =>
        /\ hpc = "scored"
        /\ hlead["email"] = None
        /\ hlead["email_valid"] = FALSE
        /\ hlead["email_confidence"] = 0
        /\ hlead["industry"] = "SaaS"
        /\ hlead["employee_estimate"] = "1-10"
        /\ hlead["revenue_estimate"] = "$0-2M"
        /\ hlead["phone_valid"] = FALSE
        /\ hlead["contact_quality"] = 50
        /\ hlead["lead_score"] = 55

----------------------------------------------------------------------------
(* Claims about the pipeline and the store *)

Terminal == {"completed", "failed"}

Ended(j) == threads[j].pc \in {"done", "dead"}

\* the leads of a thread that went through the whole loop body
Counted(outcomes) ==
    Cardinality({k \in 1..Len(outcomes) : outcomes[k].result = "counted"})

\* C1: the leads table holds at most one row per url; insert_lead with a
\* url that is already stored updates that row, which keeps its id, and
\* adds no second row.
C1_OneRowPerUrl ==
    [][/\ \A r1, r2 \in leads' : r1.url = r2.url => r1 = r2
       /\ \A r \in leads : \A r2 \in leads' : r2.url = r.url => r2.id = r.id
       /\ \A r \in leads : \E r2 \in leads' : r2.id = r.id /\ r2.url = r.url]_vars

\* two jobs have stored the same url, and its row was updated
C1_Witness ==
    \E r \in leads :
        /\ r.updated
        /\ \E j1, j2 \in DOMAIN threads :
            /\ j1 # j2
            /\ \A j \in {j1, j2} :
                \E k \in 1..Len(threads[j].outcomes) :
                    threads[j].outcomes[k] = [url |-> r.url, result |-> "counted"]

\* C2: every job created by a scrape request reaches completed or failed:
\* when its thread has ended, the job is in one of the two.
C2_EveryJobEnds ==
    \A j \in DOMAIN threads : Ended(j) => jobs[j].status \in Terminal

\* C3: an exception raised while one lead is enriched, scored or stored is
\* caught; the leads of the job are taken in order, each of them once; the
\* job ends completed with leads_found the number of leads that did not
\* raise; the handler of the job is entered only from scrape and from
\* complete_scraping_job.
C3_PartialFailure ==
    \A j \in DOMAIN threads :
        LET t == threads[j]
        IN  /\ Len(t.outcomes) <= Len(t.raw_leads)
            /\ \A k \in 1..Len(t.outcomes) : t.outcomes[k].url = t.raw_leads[k]["url"]
            /\ t.leads_count = Counted(t.outcomes)
            /\ t.pc \in {"handler", "dead"} =>
                    t.raw_leads = <<>> \/ Len(t.outcomes) = Len(t.raw_leads)
            /\ (t.pc = "done" /\ t.e = "") => jobs[j].status = "completed"
            /\ jobs[j].status = "completed" =>
                    /\ Len(t.outcomes) = Len(t.raw_leads)
                    /\ jobs[j].leads_found = Counted(t.outcomes)

\* a completed job with a lead that raised and a lead after it that counted
C3_Witness ==
    \E j \in DOMAIN threads :
        /\ jobs[j].status = "completed"
        /\ \E k1, k2 \in 1..Len(threads[j].outcomes) :
            /\ k1 < k2
            /\ threads[j].outcomes[k1].result # "counted"
            /\ threads[j].outcomes[k2].result = "counted"

\* C4: a job for which insert_lead or log_activity raised ends failed, with
\* the error message on the job record.
C4_PersistenceErrorFailsJob ==
    \A j \in DOMAIN threads :
        (/\ Ended(j)
         /\ \E k \in 1..Len(threads[j].outcomes) :
                threads[j].outcomes[k].result \in {"insert_lead", "log_activity"}) =>
            /\ jobs[j].status = "failed"
            /\ Truthy(jobs[j].error_message)

\* what enrichment finds for a lead is degraded: no contact, no page, no
\* WHOIS answer, creation date or registrar, or a scraper record without
\* the page fields
Degraded(lead) ==
    LET env == world[lead["url"]].env
    IN  \/ bestEmailFor(lead["url"], env.api) = None
        \/ ~env.page.ok
        \/ ~env.whois.ok
        \/ env.whois.creation = None
        \/ env.whois.registrar = None
        \/ Has(lead, "error")

\* C5: while MySQL is up, a lead whose enrichment is degraded is still
\* stored through insert_lead and counted in leads_found.
C5_DegradedLeadStored ==
    \A j \in DOMAIN threads :
        outages = 0 =>
            \A k \in 1..Len(threads[j].outcomes) :
                Degraded(threads[j].raw_leads[k]) =>
                    /\ threads[j].outcomes[k].result = "counted"
                    /\ \E r \in leads : r.url = threads[j].outcomes[k].url

----------------------------------------------------------------------------
(* Claims about the store under the lead routes *)

\* C11: after any sequence of pipeline runs, status updates and deletes,
\* every persisted lead has a non-null url, a lead_score in [0,100] and a
\* contact_quality in [0,5] (in hundredths: 0..500).
C11_StoredLeadsValid ==
    \A r \in leads :
        /\ r.url \in STRING /\ r.url # ""
        /\ IsNum(r.cols["lead_score"]) /\ r.cols["lead_score"].n \in 0..100
        /\ IsNum(r.cols["contact_quality"]) /\ r.cols["contact_quality"].n \in 0..500

\* a lead the pipeline stored, whose uncapped score and rating exceed the
\* ranges, has had its status changed after another lead was deleted
C11_Witness ==
    /\ Deleted > 0
    /\ \E r \in leads :
        /\ r.status = "contacted"
        /\ r.cols["lead_score"] = Num(100)
        /\ r.cols["contact_quality"] = Num(500)

\* the enrichment columns of a lead
EnrichmentFields ==
    {"email", "email_valid", "email_confidence", "email_provider", "contact_name",
     "contact_position", "contact_department", "phone", "phone_valid",
     "industry", "employee_estimate", "revenue_estimate", "domain_age_years",
     "registrar", "tech_stack", "social_links", "contact_quality"}

\* the value of a field of lead_data, numbers tagged as the columns hold them
FieldOf(lead_data, k) ==
    IF k \in {"email_confidence", "contact_quality"} THEN Num(lead_data[k])
    ELSE lead_data[k]

\* C12: a lead stored with insert_lead and then fetched with
\* get_lead_by_url has the same value for every enrichment field, and its
\* tech_stack list and social_links map come back with unchanged content.
C12_RoundTrip ==
    fn = "get_lead_by_url" =>
        \A k \in EnrichmentFields : ret[k] = FieldOf(args.lead_data, k)

----------------------------------------------------------------------------
(* Claims about the validator *)

\* the part of an address after the '@', as is_disposable takes it
DomainOf(email) == IF HasAt(email) THEN email.parts[2] ELSE ""

C14_ConfidenceInRange ==
    fn = "get_confidence_score" =>
        /\ ret.n \in 0..100
        /\ args.email \in {None, EmptyEmail} => ret.n = 0

\* an address that earns every point, the score at its maximum
C14_Witness ==
    /\ fn = "get_confidence_score"
    /\ args.email = Email("john.doe", "hubspot.com")
    /\ ret.n = 100

\* C15: in the MX stage of validate_email a DNS failure other than "no
\* record" (a resolver timeout, another network error) counts as valid: a
\* well-formed address of a domain that is neither disposable nor a known
\* typo is not rejected for it.
C15_DnsFailureIsValid ==
    (/\ fn = "validate_email"
     /\ ~EmailFalsy(args.email)
     /\ check_format(args.email)
     /\ DomainOf(args.email) \notin disposable_domains \cup common_typos
     /\ args.mx \notin {"records", "NXDOMAIN", "NoAnswer"}) => ret.valid

----------------------------------------------------------------------------
(* Claims about the heuristics of the enricher *)

DeclaredOrder ==
    <<"SaaS", "E-commerce", "Finance", "Marketing", "Healthcare", "Education",
      "Real Estate", "Technology">>

\* the lower-cased text of description + company name + tech-stack names
Blob(lead) ==
    LowerAll(Get(lead, "description", <<>>)) \o LowerAll(Get(lead, "company_name", <<>>))
        \o LowerAll(Get(lead, "tech_stack", <<>>))

\* some keyword of the i-th industry occurs in the text of the lead
Occurs(i, lead) == \E keyword \in industries[i][2] : TextHas(Blob(lead), keyword)

Classified == IF fn = "classify_industry" THEN ret.s ELSE ret.first

\* C16: classify_industry returns the first industry, in the order SaaS,
\* E-commerce, Finance, Marketing, Healthcare, Education, Real Estate,
\* Technology, that has a keyword occurring in the lower-cased text of
\* description + company name + tech-stack names, and "General Business"
\* when none has; a second call returns the same; a text with "software"
\* and "bank" is classified SaaS.
C16_FirstIndustryWins ==
    fn \in {"classify_industry", "classify_industry again"} =>
        /\ \A i \in 1..Len(DeclaredOrder) :
                (Occurs(i, args) /\ \A j \in 1..(i - 1) : ~Occurs(j, args)) =>
                    Classified = DeclaredOrder[i]
        /\ (\A i \in 1..Len(DeclaredOrder) : ~Occurs(i, args)) =>
                Classified = "General Business"
        /\ fn = "classify_industry again" => ret.second = ret.first
        /\ ({"software", "bank"} \subseteq {Blob(args)[k] : k \in 1..Len(Blob(args))}) =>
                Classified = "SaaS"

\* a text with "bank" before "software", classified SaaS twice
C16_Witness ==
    /\ fn = "classify_industry again"
    /\ Get(args, "description", <<>>) = <<"bank", "software">>
    /\ ret.first = "SaaS"

\* the signal score as the claim states it; ages are in tenths of a year
\* and an age that is not a number is not above any limit
SignalScore(lead) ==
    LET count == Len(Get(lead, "tech_stack", <<>>))
        age == Get(lead, "domain_age_years", Num(0))
        links == Cardinality(DOMAIN Get(lead, "social_links", EmptyDict))
    IN  (IF count > 5 THEN 100 ELSE IF count > 3 THEN 50 ELSE 10)
        + (IF IsNum(age) /\ age.n > 100 THEN 100
           ELSE IF IsNum(age) /\ age.n > 50 THEN 50 ELSE 20)
        + 10 * links

Bucket(score) ==
    IF score > 150 THEN "100-500"
    ELSE IF score > 100 THEN "50-100"
    ELSE IF score > 50 THEN "10-50"
    ELSE "1-10"

RevenueOf(bucket) ==
    CASE bucket = "1-10" -> "$0-2M"
      [] bucket = "10-50" -> "$2M-10M"
      [] bucket = "50-100" -> "$10M-20M"
      [] bucket = "100-500" -> "$20M-100M"

\* C17: estimate_employees returns the bucket of the signal score, tech
\* (100 if count > 5, 50 if > 3, else 10) + domain age (100 if > 10 years,
\* 50 if > 5, else 20) + 10 per social link, with > 150 -> "100-500",
\* > 100 -> "50-100", > 50 -> "10-50", else "1-10"; estimate_revenue maps
\* the bucket to "$0-2M", "$2M-10M", "$10M-20M", "$20M-100M".
C17_EmployeeBuckets ==
    /\ fn \in {"estimate_employees", "estimate_revenue"} =>
            ret.employee_estimate = Bucket(SignalScore(args))
    /\ fn = "estimate_revenue" =>
            ret.revenue_estimate = RevenueOf(ret.employee_estimate)

\* the phone with whitespace, parentheses, dashes and plus signs removed
Stripped(phone) ==
    SelectSeq(phone.chars, LAMBDA c : c \notin {" ", "\t", "\n", "(", ")", "-", "+"})

AtLeastTenDigits(phone) ==
    /\ phone # None
    /\ Len(Stripped(phone)) >= 10
    /\ \A i \in 1..Len(Stripped(phone)) : Stripped(phone)[i] \in Digits

\* C18: after enrich_lead on a lead with a url, phone_valid is true exactly
\* when the phone, with whitespace, parentheses, dashes and plus signs
\* removed, has at least 10 characters that are all digits; a valid phone
\* is kept and an invalid one is set to null.
C18_PhoneValidation ==
    (hpc # "start" /\ Get(hraw, "url", "") # "") =>
        /\ ~hres.raised
        /\ hres.value["phone_valid"] = AtLeastTenDigits(Get(hraw, "phone", None))
        /\ hres.value["phone_valid"] => hres.value["phone"] = hraw["phone"]
        /\ ~hres.value["phone_valid"] => hres.value["phone"] = None

\* the sum of the claim, in hundredths of a star
StarSum(lead) ==
    (IF Get(lead, "email_valid", FALSE)
     THEN IF Get(lead, "email_confidence", 0) >= 90 THEN 250
          ELSE IF Get(lead, "email_confidence", 0) >= 70 THEN 200 ELSE 150
     ELSE 0)
    + (IF Get(lead, "contact_name", "") \notin {"", " ", "  "} THEN 75 ELSE 0)
    + (IF Get(lead, "contact_position", None) # None
          \/ Get(lead, "contact_department", None) # None THEN 75 ELSE 0)
    + (IF Get(lead, "phone_valid", FALSE) THEN 100 ELSE 0)
    + (IF Get(lead, "social_links", EmptyDict) # EmptyDict THEN 50 ELSE 0)
    + (IF Get(lead, "description", <<>>) \notin {<<>>, NoDescription, <<"N/A">>}
       THEN 50 ELSE 0)

\* C19: rate_contact_quality returns the sum of +2.5/+2/+1.5 by confidence
\* tier if the email is valid, +0.75 for a non-blank contact name, +0.75
\* for a position or department, +1 for a valid phone, +0.5 for any social
\* link and +0.5 for a non-placeholder description, rounded to one decimal
\* (a multiple of 0.1 at most 0.05 from the sum) and capped at 5: the
\* result is in [0,5].
C19_ContactQuality ==
    fn = "rate_contact_quality" =>
        /\ ret.n \in 0..500
        /\ ret.n % 10 = 0
        /\ IF StarSum(args) >= 500 THEN ret.n = 500
           ELSE ret.n - StarSum(args) \in -5..5

\* a lead with every signal, whose sum of 6 is capped at 5
C19_Witness ==
    /\ fn = "rate_contact_quality"
    /\ StarSum(args) = 600
    /\ ret.n = 500

----------------------------------------------------------------------------
(* Claims about the email finder inside the pipeline *)

\* the causes for which the domain search has no email to give
NoContactCause(api) ==
    \/ ~api.key
    \/ api.resp = "timeout"
    \/ api.resp # "200"
    \/ api.emails = <<>>

\* C20: with a missing API key, a network timeout, a non-200 response or
\* an empty result set, the lookup for a lead does not raise and gives no
\* contact, and the lead is not failed for it: enrich_lead returns the
\* lead with email null and background_scrape goes on to score it.
C20_FinderFailureIsNoContact ==
    (/\ hpc # "start"
     /\ Get(hraw, "url", "") # ""
     /\ NoContactCause(henv.api)) =>
        /\ ~hres.raised
        /\ hres.value["email"] = None
        /\ hpc # "caught"

----------------------------------------------------------------------------
(* Claims about the scraper *)

\* the query with "https://" in front when it has no http/https scheme
Prefixed(query) ==
    IF query = "www.HubSpot.com" THEN "https://www.HubSpot.com" ELSE query

\* the fetch or the parse of the page of a query fails
FetchFails(query, sites) ==
    \/ query = MalformedUrl
    \/ sites[Prefixed(query)].fetch # "ok"

\* C21: scrape(query, "url") does not raise and returns exactly one record,
\* whose url is the query with its scheme; when the fetch or the parse
\* failed the record has the keys url, company_name and error and no other.
C21_ScrapeNeverRaises ==
    (fn = "scrape" /\ args.source_type = "url") =>
        /\ ~ret.raised
        /\ Len(ret.value) = 1
        /\ ret.value[1]["url"] = Prefixed(args.query)
        /\ FetchFails(args.query, world) =>
              DOMAIN ret.value[1] = {"url", "company_name", "error"}

\* the anchors of a page that match a platform, by position: the url holds
\* the domain of the platform and of no platform declared before it
MatchesOf(links, base_url, p) ==
    {i \in 1..Len(links) :
        /\ DomainIn(social_platforms[p].domain, urljoin(base_url, links[i]))
        /\ \A q \in 1..(p - 1) :
              ~DomainIn(social_platforms[q].domain, urljoin(base_url, links[i]))}

\* C22: for each platform, when several anchors match it the returned map
\* holds the url of the first of them in document order.
C22_FirstLinkWins ==
    fn = "extract_social_links" =>
        \A p \in DOMAIN social_platforms :
            LET hits == MatchesOf(args.links, args.base_url, p)
                name == social_platforms[p].platform
            IN  Cardinality(hits) > 1 =>
                    /\ Has(ret, name)
                    /\ ret[name] = urljoin(args.base_url,
                                           args.links[CHOOSE i \in hits : \A k \in hits : i <= k])

\* an address of the placeholder blocklist
OnBlocklist(e) == e \in {"user@example.com", "Sales@Domain.com", "me@yoursite.org"}

\* the emails of the text that are not on the blocklist
Contacts(emails) == SelectSeq(emails, LAMBDA e : ~OnBlocklist(e))

\* C23: extract_email returns the first email of the text that is not on
\* the blocklist; when the text has none, the address of the first mailto
\* link; and null only when there is neither.
C23_EmailFallback ==
    fn = "extract_email" =>
        ret = IF Len(Contacts(args.emails)) > 0 THEN Str(Contacts(args.emails)[1])
              ELSE IF Len(args.mailtos) > 0
                   THEN Str(WithoutMailto(args.mailtos[1]))
                   ELSE None

----------------------------------------------------------------------------
(* Claims about the store and the jobs *)

\* C24: the activity log is append-only: every step of the pipeline and of
\* the lead routes leaves the entries written so far in place and unchanged,
\* and only adds entries after them.
C24_AppendOnly ==
    [][/\ Len(activity_log') >= Len(activity_log)
       /\ SubSeq(activity_log', 1, Len(activity_log)) = activity_log]_vars

\* json.dumps(v) of a list or a dict of strings: its items, the strings in
\* double quotes
JsonDumps(v) == [text |-> v, quote |-> IF DOMAIN v = {} THEN "" ELSE "\""]

\* the stored field set: the columns of table leads
StoredFields == LeadColumns \cup {"id"}

\* C25: export_to_csv writes one row per stored lead, with the stored
\* fields as columns, and tech_stack and social_links of a row are the JSON
\* text insert_lead stored for that lead.
C25_ExportJson ==
    (fn = "export_to_csv" /\ leads # {}) =>
        /\ ret # None
        /\ ret.fieldnames = StoredFields
        /\ Len(ret.rows) = Cardinality(leads)
        /\ \A r \in leads : \E i \in 1..Len(ret.rows) :
            /\ ret.rows[i]["url"] = [str |-> r.url]
            /\ \A k \in {"tech_stack", "social_links"} :
                ret.rows[i][k] = JsonDumps(r.cols[k].json)

\* an exception reached the handler of job j: scrape or the closing
\* complete_scraping_job raised
RaisedOutside(j) == threads[j].e # ""

\* C26: a job whose thread has ended after scrape, or another step outside
\* the per-lead handler, raised, has status failed and an error message; a
\* job has status completed only when no such exception was raised.
C26_FailedOnException ==
    \A j \in DOMAIN threads :
        /\ (Ended(j) /\ RaisedOutside(j)) =>
                /\ jobs[j].status = "failed"
                /\ jobs[j].error_message # None
        /\ jobs[j].status = "completed" => ~RaisedOutside(j)

\* the rows of a table that hold the url of a lead
RowsOf(rows, lead_data) == {r \in rows : UrlKey(r.url) = UrlKey(lead_data["url"])}

\* C27: insert_lead on a url that is stored leaves the status and the
\* created_at of its row as they were, whatever update_lead_status had set
\* and however often the lead is inserted; on a url that is not stored it
\* stores the status of the record, or 'new' when the record has none.
C27_StatusSurvives ==
    fn \in {"insert_lead", "insert_lead again"} =>
        /\ \A old \in RowsOf(ret.before, args.lead_data) :
              \E r \in leads :
                  /\ r.id = old.id
                  /\ r.status = old.status
                  /\ r.created_at = old.created_at
        /\ RowsOf(ret.before, args.lead_data) = {} =>
              \A r \in RowsOf(leads, args.lead_data) :
                  r.status = Get(args.lead_data, "status", "new")

\* the sample lead of hubspot.com, set to another status than the record
\* has, after two inserts of the record
C27_Witness ==
    /\ fn = "insert_lead again"
    /\ \E r \in RowsOf(leads, args.lead_data) :
        /\ r.updated
        /\ r.status = "contacted"
        /\ Get(args.lead_data, "status", "new") # r.status

----------------------------------------------------------------------------
(* Claims about the database connections *)

\* the callers whose block was entered and has been left
Left == {w \in DOMAIN conns : conns[w].pc = "exited" /\ conns[w].conn # "none"}

\* C28: on every exit path of a get_connection block, normal, with a
\* database Error or with another exception, the connection is closed or
\* back in the pool, and the writes of the block are committed exactly when
\* the block ended without an exception and rolled back otherwise.
C28_ConnectionReleased ==
    \A w \in Left :
        /\ conns[w].conn = "closed"
        /\ conns[w].txn = "committed" <=> conns[w].exc = ""
        /\ conns[w].exc # "" => conns[w].txn = "rolled back"

\* C29: with any number of callers at the same time every attempt to get a
\* connection succeeds: no block, and no block of get_lead_by_url inside
\* insert_lead, ends with the PoolError of an exhausted pool.
C29_PoolNeverExhausted ==
    \A w \in DOMAIN conns :
        /\ conns[w].exc # "PoolError"
        /\ conns[w].inner # "failed"

\* the leads of a thread for which insert_lead returned: the rows the job
\* inserted or updated
Stored(outcomes) ==
    {k \in 1..Len(outcomes) : outcomes[k].result \in {"counted", "log_activity"}}

\* C30: a job in a terminal status has leads_found equal to the number of
\* rows it inserted or updated, and each of these leads has a
\* 'lead_created' entry in the activity log.
C30_LeadsFoundIsRowsStored ==
    \A j \in DOMAIN threads :
        jobs[j].status \in Terminal =>
            /\ jobs[j].leads_found = Cardinality(Stored(threads[j].outcomes))
            /\ \A k \in Stored(threads[j].outcomes) :
                \E r \in leads, n \in 1..Len(activity_log) :
                    /\ UrlKey(r.url) = UrlKey(threads[j].outcomes[k].url)
                    /\ activity_log[n].lead_id = r.id
                    /\ activity_log[n].activity_type = "lead_created"

====
